---------------------------- MODULE Spec2Model ----------------------------
(***************************************************************************)
(* DoodleDash backend: the room state machine, the session coordinator     *)
(* (message handlers, round lifecycle, round timer) and the hub's room     *)
(* fan-out, as a state machine.                                            *)
(*                                                                         *)
(* Threads.  The hub event loop (hub.go Run) runs every message handler    *)
(* and every room broadcast, one at a time.  Each round timer              *)
(* (runRoundTimer) is a goroutine of its own and calls HandleRoundEnd      *)
(* without any mutual exclusion against the hub loop: the room mutex is    *)
(* held only inside single Room methods.  The model therefore interleaves  *)
(* the threads between the Room/User method calls that matter:             *)
(*   handleSendGuess : check (ValidateGuess l.33-44) | award (l.47-80 and  *)
(*                     the rest of the handler)                            *)
(*   HandleRoundEnd  : score and build (l.435-497) | broadcast and go on   *)
(*                     (l.499-517); in RoundEndSpec score (l.435-445) |    *)
(*                     build (l.447-497) | broadcast and go on             *)
(*   runRoundTimer   : tick (l.590-601) | HandleRoundEnd                   *)
(*                                                                         *)
(* Scope.  One room at a time, private (no BroadcastToAll), difficulty     *)
(* easy.  The connections' send queues are not kept: lastSent holds what   *)
(* the last step put on them.  No handler under src/ sets User.IsReady,    *)
(* which Room.CanStart requires; the action SetReady stands for the        *)
(* players marking themselves ready.  User ids are taken to be distinct.   *)
(*                                                                         *)
(* Three specifications share the actions of the game: Spec (a game in a   *)
(* room of two, every interleaving of hub loop and timers), FaultSpec (the *)
(* same game with a player leaving or a connection closing) and LobbySpec  *)
(* (rooms of several sizes, made over the stream or over HTTP, joins and   *)
(* leaves, no game).                                                       *)
(*                                                                         *)
(* The others look at one part of the program each, with variables of      *)
(* their own: RegistrySpec (the RoomManager's two indexes, with the ids    *)
(* and codes the generators may return), HubSpec (Client objects,          *)
(* registration under a user id already connected, Client.disconnect, the  *)
(* register and unregister channels and the send queues), DrawSpec (the    *)
(* way of a draw message from ReadPump to the observers' streams, starting *)
(* in a round of a room of three), RoundEndSpec (the last round of that    *)
(* room, with HandleRoundEnd in three steps), PointsSpec and               *)
(* LeaderboardSpec (CalculateGuesserPoints and getLeaderboard over a range *)
(* of arguments), ShutdownSpec (gracefulShutdown of main.go with the hub   *)
(* loop's shutdownAllClients; ShutdownLive adds the fairness of the Go     *)
(* scheduler, as SpecLive does for Spec), CodeSpec (the registry with the  *)
(* id and the code that the generators of room.go return, and the room     *)
(* code validation), IndexSpec (the registry and the hub's room index      *)
(* under create, join, leave and unregister), FanOutSpec (the hub's        *)
(* fan-out in its two steps, IsConnected and the send, with connections    *)
(* closing in between) and LockSpec (the read-write locks of a room and a  *)
(* user while the room's public view is built).  The actions of one part   *)
(* leave the variables of the others alone.                                *)
(***************************************************************************)
EXTENDS Integers, Sequences, FiniteSets

(***************************************************************************)
(* Bounds of the model.                                                    *)
(***************************************************************************)
NumUsers == 3          \* connections (each with its own guest user)
MaxRoomsCreated == 1   \* create_room messages accepted over a run
MaxGames == 1          \* start_game messages accepted per room
GamePlayers == 2       \* max_players of the room a game is played in
MaxPlayersBound == 3   \* largest max_players setting tried in the lobby
MaxRoundsBound == 3    \* largest max_rounds setting tried (the other is 1)
RoundTime == 1         \* the room's round_time setting, in seconds
MaxOvertime == 0       \* seconds the clock runs on after the round's end time
RoomBroadcastCap == 5  \* capacity of hub.roomBroadcast (500 in hub.go)
MaxDisconnects == 1    \* connections that close over a run
MaxFaults == 1         \* leaves and disconnections over a run with a game
LobbyMaxLeaves == 2    \* leave_room messages carried out over a run in the lobby
MaxRoundSeq == 2       \* rounds begun over a run
NumRoomIDs == 2        \* room ids the id generator can return
NumCodes == 2          \* room codes the code generator can return
MaxRoomObjects == 2    \* rooms created over a run of the registry
MaxReconnects == 1     \* connections accepted after the first NumUsers
SendCap == 2           \* capacity of Client.send (256 in client.go)
RegisterCap == 1       \* capacity of hub.register (100 in hub.go)
UnregisterCap == 1     \* capacity of hub.unregister (100 in hub.go)
MaxDisconnectCalls == 2 \* Disconnect calls counted per connection
MaxLockCalls == 2      \* calls of a writing method per lock over a run
MaxDraws == 4          \* draw messages read from the connections over a run
MessageHandlerCap == 2 \* capacity of hub.messageHandler (1000 in hub.go)
DrawMaxRounds == 2     \* max_rounds of the room of three: its first round is the last
MaxPointsPlayers == 5  \* largest number of players the points are computed for
DefaultRoundTime == 60 \* the other round_time the points are computed for
MaxGuessTime == 75     \* largest guess time the points are computed for, in seconds

(***************************************************************************)
(* Program constants: config.go GetDefaultConfig, Points; the 2 of         *)
(* Room.CanStart.                                                          *)
(***************************************************************************)
BaseGuessPoints == 100
MaxOrderBonus == 50
MaxDifficultyBonus == 100
MaxTimeBonus == 25
DrawerBasePoints == 20
DrawerBonusPerGuesser == 15
MinPlayersToStart == 2

Users == 1..NumUsers
\* User ids are only compared for equality: the first connection stands for
\* whichever one creates the room.
Creators == {u \in Users : \A v \in Users : u <= v}
NoUser == 0
\* The id of the guest user the HTTP handler makes as host of the room it
\* creates: a user of no connection.
GuestHost == NumUsers + 1
Words == {"cat", "dog"}
NoWord == ""
Guesses == Words \cup {"zzz"}

VARIABLES
    \* hub.go Hub
    clients,         \* set of users whose connection is registered and connected
    clientRoomID,    \* client.roomID per connection (0: "")
    clientsByRoom,   \* room id -> set of connections
    roomBroadcast,   \* the roomBroadcast channel: sequence of RoomMessage
    \* room_manager.go RoomManager / room.go Room / user.go User
    roomsCreated,    \* rooms created so far; the newest has this id
    roomLive,        \* the room with id roomsCreated is in rm.rooms
    room,            \* the fields of that Room
    user,            \* the fields of each User
    elapsed,         \* whole seconds since room.RoundStartTime
    \* threads
    hubPc,           \* where the hub loop stands inside a handler
    hubLocal,        \* the handler's locals
    timers,          \* live runRoundTimer goroutines
    crashed,         \* an unrecovered panic ended the process
    \* observation
    lastSent,        \* (connection, frame) pairs put on send queues by the last step
    hist,            \* what the coordinator has emitted so far
    \* room_manager.go RoomManager with the ids and codes of the rooms
    rooms,           \* rm.rooms: room id -> Room object (NoRoom: no entry)
    roomByCode,      \* rm.roomByCode: room code -> Room object
    roomObjs,        \* the Room objects made so far, in order of creation
    clientRoom,      \* client.roomID of each connection, as a room id
    roomSets,        \* hub.clientsByRoom as a map: room id -> set of connections
    \* client.go Client and hub.go Hub: connections, registration, disconnection
    conn,            \* the Client objects: user, isConnected, send, ...
    hClients,        \* h.clients
    clientsByUserID, \* h.clientsByUserID (NoConn: no entry)
    register,        \* the register channel
    unregister,      \* the unregister channel
    hubTask,         \* where the hub loop stands in registerClient or a handler
    \* the way of a draw message through the hub
    messageHandler,  \* the messageHandler channel
    wire,            \* per connection, the draw_data frames written to its stream
    drawn,           \* draw messages read so far; the newest has this number
    \* CalculateGuesserPoints, getLeaderboard, GetPublicRoomInfo on their own
    calc,            \* the arguments of a call of a function looked at on its
                     \* own and, once it has returned, the result; for
                     \* GetPublicRoomInfo where the call stands and the locks
    \* main.go gracefulShutdown
    mainPc,          \* where the main goroutine stands
    shutdown,        \* hub.shutdown is closed
    cleanupStop      \* rm.cleanupStop is closed

gameVars == << clients, clientRoomID, clientsByRoom, roomBroadcast, roomsCreated,
               roomLive, room, user, elapsed, hubPc, hubLocal, timers, crashed,
               lastSent, hist >>

registryVars == << rooms, roomByCode, roomObjs, clientRoom, roomSets >>

connVars == << conn, hClients, clientsByUserID, register, unregister, hubTask >>

drawVars == << messageHandler, wire, drawn, calc >>

mainVars == << mainPc, shutdown, cleanupStop >>

\* What the actions of the game leave alone.
layerVars == << registryVars, connVars, drawVars, mainVars >>

\* What the actions of the registry leave alone.
notRegistryVars == << gameVars, connVars, drawVars, mainVars >>

\* What the actions of the connections leave alone.
notConnVars == << gameVars, registryVars, drawVars, mainVars >>

vars == << gameVars, registryVars, connVars, drawVars, mainVars >>

hubVars == << clients, clientRoomID, clientsByRoom >>

----------------------------------------------------------------------------
(***************************************************************************)
(* Frames (message.go) carry the fields the claims read.                   *)
(***************************************************************************)
Frame(t, u, w, n, p) == [type |-> t, user |-> u, word |-> w, num |-> n, points |-> p]

RoomMessage(rid, f, ex) == [RoomID |-> rid, Message |-> f, Exclude |-> ex]

NoData == [Word |-> NoWord, DrawerID |-> NoUser, DrawerPoints |-> 0,
           NextRound |-> 0, Round |-> 0, Seq |-> 0,
           Guessed |-> << >>, Orders |-> << >>, Points |-> << >>,
           NotGuessed |-> << >>]

SeqToSet(s) == {s[i] : i \in 1..Len(s)}

Contains(s, x) == x \in SeqToSet(s)

IndexOf(s, x) == IF Contains(s, x) THEN CHOOSE i \in 1..Len(s) :
                      s[i] = x /\ \A j \in 1..(i-1) : s[j] # x
                 ELSE 0

RemoveFirst(s, x) == IF Contains(s, x)
                     THEN [i \in 1..(Len(s)-1) |->
                              IF i < IndexOf(s, x) THEN s[i] ELSE s[i+1]]
                     ELSE s

\* Go's int(float64): truncation towards zero of a / b, b > 0.
TruncDiv(a, b) == IF a >= 0 THEN a \div b ELSE -((-a) \div b)

----------------------------------------------------------------------------
(***************************************************************************)
(* user.go                                                                 *)
(***************************************************************************)
NewUser == [Score |-> 0, IsReady |-> FALSE, HasGuessedThisRound |-> FALSE,
            GuessOrder |-> 0, GuessTime |-> 0]

AddScore(us, u, points) == [us EXCEPT ![u].Score = @ + points]

\* RecordGuess sets HasGuessedThisRound and GuessTime whether or not the guess
\* was correct.  GuessTime is kept as the whole seconds since the round's
\* start, which is all that is read of it (now: the clock at the call).
RecordGuess(us, u, correct, guessOrder, now) ==
    [us EXCEPT ![u].HasGuessedThisRound = TRUE,
               ![u].GuessTime = now,
               ![u].GuessOrder = IF correct THEN guessOrder ELSE @]

ResetRoundData(usr) == [usr EXCEPT !.HasGuessedThisRound = FALSE,
                                   !.GuessTime = 0,
                                   !.GuessOrder = 0,
                                   !.IsReady = FALSE]

ResetPlayers(us, players) ==
    [u \in Users |-> IF u \in players THEN ResetRoundData(us[u]) ELSE us[u]]

(***************************************************************************)
(* room.go                                                                 *)
(***************************************************************************)
NewRoom(hostID, maxPlayers, maxRounds) ==
    [HostID |-> hostID, MaxPlayers |-> maxPlayers, MaxRounds |-> maxRounds,
     Difficulty |-> "easy", State |-> "lobby", Phase |-> "waiting",
     CurrentRound |-> 0, Players |-> {}, PlayerOrder |-> << >>,
     CurrentDrawer |-> NoUser, CurrentWord |-> NoWord,
     GuessedPlayers |-> << >>, DrawingData |-> << >>,
     RoundEndTimeSet |-> FALSE, Games |-> 0]

IsFull(rm) == Cardinality(rm.Players) >= rm.MaxPlayers

\* Variant of AddPlayerOk without the capacity test.
AddPlayerOk_NoCapacity(rm, u) == u \notin rm.Players

AddPlayerOk(rm, u) == ~IsFull(rm) /\ u \notin rm.Players

AddPlayer(rm, u) ==
    IF AddPlayerOk(rm, u)
    THEN [rm EXCEPT !.Players = @ \cup {u}, !.PlayerOrder = Append(@, u)]
    ELSE rm

assignNewHost(rm) ==
    IF rm.Players = {} THEN [rm EXCEPT !.HostID = NoUser]
    ELSE IF \E i \in 1..Len(rm.PlayerOrder) : rm.PlayerOrder[i] \in rm.Players
         THEN [rm EXCEPT !.HostID = rm.PlayerOrder[
                  CHOOSE i \in 1..Len(rm.PlayerOrder) :
                      /\ rm.PlayerOrder[i] \in rm.Players
                      /\ \A j \in 1..(i-1) : rm.PlayerOrder[j] \notin rm.Players]]
         ELSE rm

\* CurrentDrawer is not touched when the drawer is the one removed.
RemovePlayer(rm, u) ==
    IF u \notin rm.Players THEN rm
    ELSE LET r1 == [rm EXCEPT !.Players = @ \ {u},
                              !.PlayerOrder = RemoveFirst(@, u),
                              !.GuessedPlayers = RemoveFirst(@, u)]
         IN  IF r1.HostID = u /\ r1.Players # {} THEN assignNewHost(r1) ELSE r1

\* Variant of CanStart without the test of the number of players.
CanStart_NoMinPlayers(rm, us) ==
    /\ rm.State = "lobby"
    /\ \A p \in rm.Players : us[p].IsReady

CanStart(rm, us) ==
    /\ rm.State = "lobby"
    /\ Cardinality(rm.Players) >= MinPlayersToStart
    /\ \A p \in rm.Players : us[p].IsReady

StartGame(rm) ==
    [rm EXCEPT !.State = "playing", !.Phase = "drawing", !.CurrentRound = 1,
               !.CurrentDrawer = IF Len(rm.PlayerOrder) > 0
                                 THEN rm.PlayerOrder[1] ELSE @]

\* currentIndex is -1 when the drawer is not in PlayerOrder; the next index is
\* (currentIndex + 1) % len, zero-based.
selectNextDrawer(rm) ==
    IF Len(rm.PlayerOrder) = 0 THEN rm
    ELSE [rm EXCEPT !.CurrentDrawer =
             rm.PlayerOrder[(IndexOf(rm.PlayerOrder, rm.CurrentDrawer)
                             % Len(rm.PlayerOrder)) + 1]]

StartNewRound(rm, word) ==
    selectNextDrawer([rm EXCEPT !.CurrentRound = @ + 1, !.Phase = "drawing",
                                !.CurrentWord = word, !.RoundEndTimeSet = TRUE,
                                !.GuessedPlayers = << >>, !.DrawingData = << >>])

EndRound(rm) == [rm EXCEPT !.Phase = "results"]

\* Variant of EndGame that leaves the drawing log.
EndGame_KeepsDrawing(rm) ==
    [rm EXCEPT !.State = "lobby", !.Phase = "waiting", !.CurrentRound = 0,
               !.CurrentDrawer = NoUser, !.CurrentWord = NoWord,
               !.GuessedPlayers = << >>]

EndGame(rm) ==
    [rm EXCEPT !.State = "lobby", !.Phase = "waiting", !.CurrentRound = 0,
               !.CurrentDrawer = NoUser, !.CurrentWord = NoWord,
               !.GuessedPlayers = << >>, !.DrawingData = << >>]

\* Room.AddDrawCommand: the command, known by its number, joins the log.
\* Variant of AddDrawCommand that puts the command at the head of the log.
AddDrawCommand_Front(rm, n) == [rm EXCEPT !.DrawingData = << n >> \o @]

AddDrawCommand(rm, n) == [rm EXCEPT !.DrawingData = Append(@, n)]

AddGuess(rm, u) ==
    IF Contains(rm.GuessedPlayers, u) THEN rm
    ELSE [rm EXCEPT !.GuessedPlayers = Append(@, u)]

\* RoundEndTime is the zero time until the first StartNewRound and is never
\* reset afterwards (EndGame leaves it).
GetTimeLeft(rm, el) ==
    IF ~rm.RoundEndTimeSet THEN 0
    ELSE IF RoundTime - el < 0 THEN 0 ELSE RoundTime - el

(***************************************************************************)
(* game engine (unnamed/part_002)                                          *)
(***************************************************************************)
Multiplied(points, difficulty) ==
    CASE difficulty = "medium" -> TruncDiv(points * 125, 100)
      [] difficulty = "hard"   -> TruncDiv(points * 150, 100)
      [] OTHER                 -> points

\* The (b, k, n) among the arguments tried for which float64(b) * (1.0 -
\* float64(k)/float64(n)) is not the exact product, an integer, but the
\* float64 next to it towards zero: 4/5 rounds up to 0.8000000000000000444,
\* so 1.0 - 4/5 is 0.19999999999999996 and 100 times that
\* 19.999999999999996.  (Every other product tried is either exact or not
\* within 1e-9 of an integer, so that int() of it is the exact quotient
\* truncated.)
FloatShort == {<< 50, 4, 5 >>, << 100, 4, 5 >>, << 25, 48, 60 >>, << 25, 72, 60 >>}

\* int(float64(b) * (1.0 - float64(k)/float64(n))): Go's conversion to int
\* drops the fraction, towards zero.
Bonus(b, k, n) ==
    LET v == TruncDiv(b * (n - k), n)
    IN  IF << b, k, n >> \notin FloatShort THEN v
        ELSE IF v > 0 THEN v - 1 ELSE v + 1

CalculateGuesserPoints(guessOrder, totalGuessers, guessTime, roundDuration, totalPlayers, difficulty) ==
    Multiplied(BaseGuessPoints
        + Bonus(MaxOrderBonus, guessOrder - 1, totalPlayers)
        + Bonus(MaxDifficultyBonus, totalGuessers, totalPlayers)
        + Bonus(MaxTimeBonus, guessTime, roundDuration),
        difficulty)

CalculateDrawerPoints(totalGuessers) ==
    DrawerBasePoints + totalGuessers * DrawerBonusPerGuesser

----------------------------------------------------------------------------
(***************************************************************************)
(* The coordinator's functions are written as transformers of a "world":   *)
(* the room, the users, the emission history, and what the call has        *)
(* handed to the hub so far (out: BroadcastToRoom calls in order; direct:  *)
(* frames put on a connection's send queue by Client.SendMessage; spawn:   *)
(* timer goroutines started; crash: a nil dereference happened).           *)
(***************************************************************************)
World == [room |-> room, user |-> user, hist |-> hist, elapsed |-> elapsed,
          out |-> << >>, direct |-> {}, spawn |-> {}, crash |-> FALSE]

\* services.RoomManager.GetRoom: the room is found while it is in rm.rooms.
GetRoom(rid) == roomLive /\ rid = roomsCreated

\* Hub.GetClientByUserID: exists && client.IsConnected().
GetClientByUserID(u) == u \in clients

\* Hub.BroadcastToRoom: hands a RoomMessage to the roomBroadcast channel.
BroadcastToRoom(w, rid, f, ex) ==
    [w EXCEPT !.out = Append(@, RoomMessage(rid, f, ex))]

\* Client.SendMessage: a disconnected client gets nothing.
SendMessage(w, to, f) ==
    IF to \in clients THEN [w EXCEPT !.direct = @ \cup {[to |-> to, frame |-> f]}]
    ELSE w

sendClientError(w, to, code) == SendMessage(w, to, Frame("error", to, code, 0, 0))

\* Variant of NewRoundOthersFrame that keeps the word in the frame.
NewRoundOthersFrame_WithWord(rm) ==
    Frame("new_round", rm.CurrentDrawer, rm.CurrentWord, rm.CurrentRound, 0)

NewRoundOthersFrame(rm) ==
    Frame("new_round", rm.CurrentDrawer, NoWord, rm.CurrentRound, 0)

NewRoundDrawerFrame(rm) ==
    Frame("new_round", rm.CurrentDrawer, rm.CurrentWord, rm.CurrentRound, 0)

NewRoundExclude(rm) ==
    IF GetClientByUserID(rm.CurrentDrawer) THEN rm.CurrentDrawer ELSE NoUser

\* The emission history of a round that begins.
HistNewRound(h, rm) ==
    [h EXCEPT !.roundSeq = @ + 1,
              !.drawerAwards = 0,
              !.guessAwards = [u \in Users |-> 0],
              !.guessResults = [u \in Users |-> 0],
              !.correctSubmits = [u \in Users |-> 0],
              !.firstNewRound = IF @.round = 0
                                THEN [round |-> rm.CurrentRound,
                                      drawer |-> rm.CurrentDrawer,
                                      first |-> @.first]
                                ELSE @]

\* handlers HandleNewRound (config.go 367-431).  A drawer that is not a player
\* leads into HandleRoundEnd, which dereferences the missing drawer.
HandleNewRound(w, rid, word) ==
    IF ~GetRoom(rid) THEN w
    ELSE LET rm == StartNewRound(w.room, word)
             w1 == [w EXCEPT !.room = rm,
                             !.user = ResetPlayers(w.user, rm.Players),
                             !.elapsed = 0,
                             !.hist = HistNewRound(w.hist, rm)]
         IN  IF rm.CurrentDrawer \notin rm.Players
             THEN [w1 EXCEPT !.crash = TRUE]
             ELSE LET w2 == IF GetClientByUserID(rm.CurrentDrawer)
                            THEN SendMessage(w1, rm.CurrentDrawer,
                                             NewRoundDrawerFrame(rm))
                            ELSE w1
                      w3 == BroadcastToRoom(w2, rid, NewRoundOthersFrame(rm),
                                            NewRoundExclude(rm))
                  IN  [w3 EXCEPT !.spawn = @ \cup
                          {[Room |-> rid, Seq |-> w3.hist.roundSeq,
                            pc |-> "tick", due |-> FALSE, data |-> NoData]}]

\* handlers HandleGameStart (config.go 339-364): room.StartGame() and then
\* gameEngine.StartGame(room), which calls room.StartGame() again.
HandleGameStart(w, rid, word) ==
    IF ~GetRoom(rid) THEN w
    ELSE LET rm == StartGame(StartGame(w.room))
             w1 == [w EXCEPT !.room = [rm EXCEPT !.Games = @ + 1],
                             !.user = ResetPlayers(w.user, rm.Players),
                             !.hist = [w.hist EXCEPT
                                 !.firstNewRound = [round |-> 0, drawer |-> NoUser,
                                     first |-> IF Len(rm.PlayerOrder) > 0
                                               THEN rm.PlayerOrder[1] ELSE NoUser],
                                 !.roundEnded = << >>,
                                 !.gameEnded = FALSE,
                                 !.newRoundSeen = [u \in Users |-> 0]]]
             w2 == BroadcastToRoom(w1, rid, Frame("game_started", NoUser, NoWord, 0, 0),
                                   NoUser)
         IN  HandleNewRound(w2, rid, word)

\* The players HandleGameEnd can name as winner: the loop over the Players map
\* keeps the first player whose score exceeds every score seen before, so with
\* a tie at the top the map's iteration order decides; nobody when no score
\* exceeds 0.
Winners(rm, us) ==
    IF \A p \in rm.Players : us[p].Score <= 0 THEN {NoUser}
    ELSE {p \in rm.Players : \A q \in rm.Players : us[q].Score <= us[p].Score}

\* handlers HandleGameEnd (config.go 521-575)
HandleGameEnd(w, rid, winner) ==
    IF ~GetRoom(rid) THEN w
    ELSE LET rm == EndGame(w.room)
             w1 == [w EXCEPT !.room = rm,
                             !.user = [u \in Users |->
                                 IF u \in rm.Players
                                 THEN [ResetRoundData(w.user[u]) EXCEPT !.IsReady = FALSE]
                                 ELSE w.user[u]],
                             !.hist = [w.hist EXCEPT !.gameEnded = TRUE]]
         IN  BroadcastToRoom(w1, rid, Frame("game_ended", winner, NoWord,
                                            w.room.CurrentRound, 0), NoUser)

\* handlers HandleRoundEnd up to its broadcast (config.go 434-497): the
\* drawer's points are computed and added (l.440-445), then the round_ended
\* data are built from the room as it is by then and the phase becomes results
\* (l.447-497).  drawer.Username (l.484) dereferences the nil drawer when
\* CurrentDrawer is not a player.
\* The ids of a set of users in some order: Go's order of iteration over the
\* Players map is not specified, the model takes the ascending one.
RECURSIVE InSomeOrder(_)
InSomeOrder(us) ==
    IF us = {} THEN << >>
    ELSE LET u == CHOOSE x \in us : \A y \in us : x <= y
         IN  << u >> \o InSomeOrder(us \ {u})

\* A variant without the bonus per guesser.
DrawerPointsNow_BaseOnly(rm) == DrawerBasePoints

\* HandleRoundEnd, l.441: the drawer's points for the guessers there are now.
DrawerPointsNow(rm) == CalculateDrawerPoints(Len(rm.GuessedPlayers))

\* HandleRoundEnd, l.449-450: the entries of GuessedPlayers that are players.
GuessedInRoom(rm) == SelectSeq(rm.GuessedPlayers, LAMBDA u : u \in rm.Players)

\* HandleRoundEnd, l.451-456: the points of a guesser's entry, computed when
\* the round ends from the player's GuessOrder and GuessTime and the room's
\* GuessedPlayers and Players as they are then.
GuesserResultPoints(rm, player) ==
    IF player.GuessOrder > 0
    THEN CalculateGuesserPoints(player.GuessOrder, Len(rm.GuessedPlayers),
                                player.GuessTime, RoundTime,
                                Cardinality(rm.Players), rm.Difficulty)
    ELSE 0

\* HandleRoundEnd, l.447-495: the guessers entries with guessed = true, one
\* for each entry of GuessedPlayers that is a player, then those with
\* guessed = false and points = 0, one for each player that is neither in
\* GuessedPlayers nor the drawer; drawerPoints is the value of l.441.
\* Orders and Points are the guess_order and points of the entries of Guessed.
RoundEndData(rm, us, seq, drawerPoints) ==
    [Word |-> rm.CurrentWord, DrawerID |-> rm.CurrentDrawer,
     DrawerPoints |-> drawerPoints,
     NextRound |-> IF rm.CurrentRound >= rm.MaxRounds THEN 0 ELSE rm.CurrentRound + 1,
     Round |-> rm.CurrentRound, Seq |-> seq,
     Guessed |-> GuessedInRoom(rm),
     Orders |-> [i \in 1..Len(GuessedInRoom(rm)) |-> us[GuessedInRoom(rm)[i]].GuessOrder],
     Points |-> [i \in 1..Len(GuessedInRoom(rm)) |->
                    GuesserResultPoints(rm, us[GuessedInRoom(rm)[i]])],
     NotGuessed |-> InSomeOrder({u \in rm.Players :
                        ~Contains(rm.GuessedPlayers, u) /\ u # rm.CurrentDrawer})]

AwardDrawer(us, rm) ==
    IF rm.CurrentDrawer \in rm.Players
    THEN AddScore(us, rm.CurrentDrawer, DrawerPointsNow(rm))
    ELSE us

\* handlers HandleRoundEnd, l.440-445: the drawer, if a player, is given the
\* points.
HandleRoundEndScore(w) ==
    LET rm == w.room
    IN  IF rm.CurrentDrawer \notin rm.Players THEN w
        ELSE [w EXCEPT !.user = AwardDrawer(w.user, rm),
                       !.hist = [w.hist EXCEPT !.drawerAwards = @ + 1]]

\* handlers HandleRoundEnd, l.447-497: the round_ended data is built, with
\* drawer.Username of a drawer who may be no player (nil), and the round ends.
HandleRoundEndBuild(w) ==
    LET rm == w.room
    IN  IF rm.CurrentDrawer \notin rm.Players
        THEN [w EXCEPT !.crash = TRUE]
        ELSE [w EXCEPT !.room = EndRound(rm)]

\* handlers HandleRoundEnd, second part (config.go 499-517): round_ended is
\* broadcast, then the game ends or the next round begins, decided on the
\* room's CurrentRound as it is now.
HandleRoundEndBroadcast(w, rid, data, word, winner) ==
    LET w1 == BroadcastToRoom(
                  [w EXCEPT !.hist = [w.hist EXCEPT
                       !.roundEnded = Append(@, data.Round),
                       !.announced = [@ EXCEPT ![data.DrawerID] = @ + data.DrawerPoints]]],
                  rid,
                  Frame("round_ended", data.DrawerID, data.Word, data.NextRound,
                        data.DrawerPoints),
                  NoUser)
    IN  IF w.room.CurrentRound >= w.room.MaxRounds
        THEN HandleGameEnd(w1, rid, winner)
        ELSE HandleNewRound(w1, rid, word)

\* GameEngine.ValidateGuess, l.33-44: who may guess, and whether the guess is
\* the word (both are compared trimmed and lower-cased; the model's guesses
\* and words are already in that form).
GuessRejected(rm, us, u) ==
    u \notin rm.Players \/ us[u].HasGuessedThisRound \/ u = rm.CurrentDrawer

\* GameEngine.ValidateGuess, l.46-80, on the room as it is when these lines run.
GuessPoints(rm, el) ==
    CalculateGuesserPoints(Len(rm.GuessedPlayers) + 1, Len(rm.GuessedPlayers) + 1,
                           el, RoundTime, Cardinality(rm.Players), rm.Difficulty)

ValidateGuessAward(w, u) ==
    LET rm == w.room
        guessOrder == Len(rm.GuessedPlayers) + 1
        points == GuessPoints(rm, w.elapsed)
    IN  [w EXCEPT !.user = AddScore(RecordGuess(w.user, u, TRUE, guessOrder, w.elapsed), u, points),
                  !.room = AddGuess(rm, u)]

\* Variant of RoundEnding that looks at the time alone.
RoundEnding_TimeOnly(rm, el) == GetTimeLeft(rm, el) <= 0

RoundEnding(rm, el) ==
    Len(rm.GuessedPlayers) = Cardinality(rm.Players) - 1 \/ GetTimeLeft(rm, el) <= 0

Capped(n) == IF n >= 2 THEN 2 ELSE n + 1

\* handleSendGuess, l.480-518: guess_result to the guesser, points_awarded and
\* the leaderboard to the room.
SendGuessResult(w, rid, u, points) ==
    LET w1 == SendMessage(w, u, Frame("guess_result", u, w.room.CurrentWord,
                                      w.user[u].GuessOrder, points))
        w2 == BroadcastToRoom(w1, rid, Frame("points_awarded", u, NoWord, 0, points),
                              NoUser)
        w3 == BroadcastToRoom(w2, rid, Frame("leaderboard", NoUser, NoWord,
                                             w.room.CurrentRound, 0), NoUser)
    IN  [w3 EXCEPT !.hist = [w.hist EXCEPT
            !.announced = [@ EXCEPT ![u] = @ + points],
            !.guessAwards = [@ EXCEPT ![u] = Capped(@)],
            !.guessResults = [@ EXCEPT ![u] = IF u \in clients THEN Capped(@) ELSE @]]]

----------------------------------------------------------------------------
(***************************************************************************)
(* Applying a world: the frames go to the roomBroadcast channel, which      *)
(* drops what does not fit (hub.go 172-176).                                *)
(***************************************************************************)
\* A variant that puts the frames at the head of the channel.
EnqueueAll_Front(q, msgs) ==
    LET free == RoomBroadcastCap - Len(q)
        n == IF Len(msgs) < free THEN Len(msgs) ELSE free
    IN  SubSeq(msgs, 1, n) \o q

RECURSIVE EnqueueAll(_, _)
EnqueueAll(q, msgs) ==
    IF msgs = << >> THEN q
    ELSE EnqueueAll(IF Len(q) < RoomBroadcastCap THEN Append(q, Head(msgs)) ELSE q,
                    Tail(msgs))

\* The history after the frames of sent have been put on send queues: per
\* connection the highest round a new_round frame has announced to it.
SeenNewRound(h, sent) ==
    [h EXCEPT !.newRoundSeen = [u \in Users |->
        IF \E m \in sent : m.to = u /\ m.frame.type = "new_round" /\ m.frame.num > @[u]
        THEN (CHOOSE m \in sent : m.to = u /\ m.frame.type = "new_round").frame.num
        ELSE @[u]]]

Apply(w) ==
    /\ room' = w.room
    /\ user' = w.user
    /\ hist' = SeenNewRound(w.hist, w.direct)
    /\ elapsed' = w.elapsed
    /\ roomBroadcast' = EnqueueAll(roomBroadcast, w.out)
    /\ lastSent' = w.direct
    /\ crashed' = w.crash

----------------------------------------------------------------------------
(***************************************************************************)
(* room_manager.go: the registry and its two indexes.  generateRoomID and  *)
(* generateRoomCode (room.go 450-462) are sources of strings outside the   *)
(* registry: an id of RoomIDs and a code of Codes come with every          *)
(* creation, and nothing in NewRoom or RoomManager.CreateRoom compares     *)
(* them with those in use.  A Room object is known by its place in         *)
(* roomObjs, as the maps know it by its pointer.                           *)
(***************************************************************************)
RoomIDs == 1..NumRoomIDs

Codes == 1..NumCodes

NoRoom == 0

\* models.NewRoom as far as the registry reads the room.  Active: not older
\* than InactiveRoomTimeout (Room.IsActive).
NewRoomObject(id, code, hostID) ==
    [ID |-> id, Code |-> code, HostID |-> hostID, Players |-> {}, Active |-> TRUE]

\* RoomManager.GetRoom and GetRoomByCode
RegistryGetRoom(id) == rooms[id]

GetRoomByCode(code) == roomByCode[code]

\* RoomManager.JoinRoom would add the user (room found, not full, user new).
RegistryJoinOk(id, u) ==
    /\ rooms[id] # NoRoom
    /\ Cardinality(roomObjs[rooms[id]].Players) < GamePlayers
    /\ u \notin roomObjs[rooms[id]].Players

\* delete(rm.roomByCode, room.Code) for the room object n
DeleteCode(byCode, n) == [byCode EXCEPT ![roomObjs[n].Code] = NoRoom]

\* make(map[string]map[*Client]bool) (hub.go 87): no room id has an entry.
NoRoomSets == [id \in {} |-> {}]

\* Hub.addClientToRoom (hub.go 313-319) on the map: the entry is made if there
\* is none, and the connection is put in its set.  The entry of the room the
\* connection was in before is not touched.
addClientToRoomSets(sets, c, id) ==
    [r \in DOMAIN sets \cup {id} |->
        IF r = id THEN (IF id \in DOMAIN sets THEN sets[id] ELSE {}) \cup {c}
        ELSE sets[r]]

\* Hub.removeClientFromRoom (hub.go 326-335) on the map: the connection leaves
\* the set of the entry, and the entry whose set is empty then is deleted.
removeClientFromRoomSets(sets, c, id) ==
    IF id \notin DOMAIN sets THEN sets
    ELSE [r \in {q \in DOMAIN sets : q # id \/ sets[id] \ {c} # {}} |->
             IF r = id THEN sets[id] \ {c} ELSE sets[r]]

RegistryInit ==
    /\ rooms = [i \in RoomIDs |-> NoRoom]
    /\ roomByCode = [c \in Codes |-> NoRoom]
    /\ roomObjs = << >>
    /\ clientRoom = [u \in Users |-> NoRoom]
    /\ roomSets = NoRoomSets

----------------------------------------------------------------------------
(***************************************************************************)
(* client.go and hub.go: connections.  Connection c of the first NumUsers  *)
(* is the one of user c; the connections accepted later get a user id of   *)
(* generateUserID (user.go 177-180), which nothing compares with the ids   *)
(* in use.  Goroutines: the hub loop; per connection its read loop; one    *)
(* per "go client.Disconnect()" of the fan-out.  Client.disconnect is two  *)
(* steps: the test-and-set of isConnected under the client's mutex         *)
(* (l.264-267), and the send on hub.unregister followed by the two closes  *)
(* (l.276-282); the send waits while the channel is full.                  *)
(***************************************************************************)
Conns == 1..(NumUsers + MaxReconnects)

NoConn == 0

\* NewClient (client.go 72-81) with what the model observes of the client:
\* closed counts close(c.send), enqueued the sends on hub.unregister, calls
\* the Disconnect calls, atSend who stands at the send on hub.unregister.
NewClient(uid) ==
    [user |-> uid, isConnected |-> TRUE, send |-> << >>, closed |-> 0,
     reading |-> TRUE, goDisconnects |-> 0, atSend |-> "none", enqueued |-> 0,
     calls |-> 0, replacedBy |-> NoConn]

\* A connection not accepted yet.
NoClient == [NewClient(NoUser) EXCEPT !.isConnected = FALSE, !.reading = FALSE]

\* Variant of WasConnected: the call goes on whatever the flag was.
WasConnected_Always(cl) == TRUE

\* Client.disconnect l.264-267: wasConnected := c.isConnected
WasConnected(cl) == cl.isConnected

\* Client.disconnect l.263-274 by the goroutine who: the flag is cleared; the
\* caller that found it set goes on to the send on hub.unregister.
disconnectBegin(cn, c, who) ==
    [cn EXCEPT ![c].isConnected = FALSE,
               ![c].calls = IF @ < MaxDisconnectCalls THEN @ + 1 ELSE @,
               ![c].atSend = IF WasConnected(cn[c]) THEN who ELSE @]

\* Client.disconnect l.276-282: the unregister event is in the channel, the
\* stream and the send queue are closed.
disconnectFinish(cn, c) ==
    [cn EXCEPT ![c].atSend = "none", ![c].enqueued = @ + 1, ![c].closed = @ + 1]

\* Variant of DeleteByUserID that deletes the entry whoever it leads to.
DeleteByUserID_Always(byUser, uid, c) == [byUser EXCEPT ![uid] = NoConn]

\* Hub.unregisterClient l.297-301, cleanupDisconnectedClients l.445-447
DeleteByUserID(byUser, uid, c) ==
    IF byUser[uid] = c THEN [byUser EXCEPT ![uid] = NoConn] ELSE byUser

\* The hub loop is at its select.
AtSelect == [pc |-> "select", conn |-> NoConn, newc |-> NoConn, left |-> {}]

\* The connections of the NumUsers guests are registered.
ConnInit ==
    /\ conn = [c \in Conns |-> IF c \in Users THEN NewClient(c) ELSE NoClient]
    /\ hClients = Users
    /\ clientsByUserID = [u \in Users |-> u]
    /\ register = << >>
    /\ unregister = << >>
    /\ hubTask = AtSelect

----------------------------------------------------------------------------
(***************************************************************************)
(* hub.go: room index                                                      *)
(***************************************************************************)
addClientToRoom(byRoom, u, rid) == [byRoom EXCEPT ![rid] = @ \cup {u}]

removeClientFromRoom(byRoom, u, rid) == [byRoom EXCEPT ![rid] = @ \ {u}]

\* The server after NumUsers guests have connected (NewHub, hub.go 77-95, and
\* registerClient for each): no room yet, every user as NewGuestUser made it.
\* Nothing emitted yet.
NoHist == [announced |-> [u \in Users |-> 0],
           roundSeq |-> 0,
           drawerAwards |-> 0,
           guessAwards |-> [u \in Users |-> 0],
           guessResults |-> [u \in Users |-> 0],
           correctSubmits |-> [u \in Users |-> 0],
           firstNewRound |-> [round |-> 0, drawer |-> NoUser, first |-> NoUser],
           roundEnded |-> << >>,
           gameEnded |-> FALSE,
           leaves |-> 0,
           newRoundSeen |-> [u \in Users |-> 0]]

GameInit ==
    /\ clients = Users
    /\ clientRoomID = [u \in Users |-> 0]
    /\ clientsByRoom = [r \in 1..MaxRoomsCreated |-> {}]
    /\ roomBroadcast = << >>
    /\ roomsCreated = 0
    /\ roomLive = FALSE
    /\ room = NewRoom(NoUser, 0, 0)
    /\ user = [u \in Users |-> NewUser]
    /\ elapsed = 0
    /\ hubPc = "idle"
    /\ hubLocal = [user |-> NoUser, rid |-> 0, data |-> NoData]
    /\ timers = {}
    /\ crashed = FALSE
    /\ lastSent = {}
    /\ hist = NoHist

\* No draw message has been read.
DrawVarsInit ==
    /\ messageHandler = << >>
    /\ wire = [c \in Conns |-> << >>]
    /\ drawn = 0

\* main (main.go 28-68) has started the hub loop and the HTTP server and
\* waits for a signal in gracefulShutdown; NewHub and NewRoomManager have
\* made the channels, open.
MainInit ==
    /\ mainPc = "serving"
    /\ shutdown = FALSE
    /\ cleanupStop = FALSE

\* The call of the S4 scenario, not made yet.
NoCalc == [guessOrder |-> 1, totalGuessers |-> 1, guessTime |-> 10,
           roundDuration |-> DefaultRoundTime, totalPlayers |-> 2,
           difficulty |-> "easy", returned |-> FALSE, points |-> 0]

Init == GameInit /\ RegistryInit /\ ConnInit /\ DrawVarsInit /\ calc = NoCalc /\ MainInit

\* The hub loop is between two cases of its select.
HubIdle == ~crashed /\ hubPc = "idle"

\* The hub loop takes a message or an unregistration.  Go's select may take
\* any ready case; the model has the loop empty roomBroadcast first.
HubReady == HubIdle /\ roomBroadcast = << >>

\* handleCreateRoom (websocket.go 108-162) for a private room: NewRoom,
\* hub.AddClientToRoom, roomManager.JoinRoom (its result is not looked at),
\* room_created to the sender.
handleCreateRoom(u, maxPlayers, maxRounds) ==
    /\ HubReady
    /\ u \in clients
    /\ ~roomLive
    /\ roomsCreated < MaxRoomsCreated
    /\ LET rid == roomsCreated + 1
           rm == AddPlayer(NewRoom(u, maxPlayers, maxRounds), u)
       IN  /\ roomsCreated' = rid
           /\ roomLive' = TRUE
           /\ clientsByRoom' = addClientToRoom(clientsByRoom, u, rid)
           /\ clientRoomID' = [clientRoomID EXCEPT ![u] = rid]
           /\ Apply(SendMessage([World EXCEPT !.room = rm], u,
                                Frame("room_created", u, NoWord, rid, 0)))
    /\ UNCHANGED << clients, hubPc, hubLocal, timers >>
    /\ UNCHANGED layerVars

\* CreateRoom, the handler of POST /api/rooms (config.go 644-678):
\* NewGuestUser, RoomManager.CreateRoom with that user's id as host.  The user
\* is not added to the room and has no connection.
CreateRoom(maxPlayers, maxRounds) ==
    /\ HubReady
    /\ ~roomLive
    /\ roomsCreated < MaxRoomsCreated
    /\ roomsCreated' = roomsCreated + 1
    /\ roomLive' = TRUE
    /\ room' = NewRoom(GuestHost, maxPlayers, maxRounds)
    /\ lastSent' = {}
    /\ UNCHANGED << hubVars, roomBroadcast, user, elapsed, hubPc, hubLocal, timers,
                    crashed, hist >>
    /\ UNCHANGED layerVars

\* handleJoinRoom (websocket.go 165-216) with the code of the live room, or
\* with a well-formed code no room has.
handleJoinRoom(u) ==
    /\ HubReady
    /\ u \in clients
    /\ IF ~roomLive
       THEN /\ Apply(sendClientError(World, u, "ROOM_NOT_FOUND"))
            /\ UNCHANGED hubVars
       ELSE IF ~AddPlayerOk(room, u)
       THEN /\ Apply(sendClientError(World, u, "JOIN_FAILED"))
            /\ UNCHANGED hubVars
       ELSE /\ clientsByRoom' = addClientToRoom(clientsByRoom, u, roomsCreated)
            /\ clientRoomID' = [clientRoomID EXCEPT ![u] = roomsCreated]
            /\ UNCHANGED clients
            /\ Apply(BroadcastToRoom(
                   SendMessage(
                       [World EXCEPT !.room = AddPlayer(room, u)],
                       u, Frame("room_joined", u, NoWord, roomsCreated, 0)),
                   roomsCreated, Frame("player_joined", u, NoWord, 0, 0), u))
    /\ UNCHANGED << roomsCreated, roomLive, hubPc, hubLocal, timers >>
    /\ UNCHANGED layerVars

\* handleLeaveRoom (websocket.go 219-251) with RoomManager.LeaveRoom
\* (room_manager.go 92-111): the room that becomes empty leaves the registry.
handleLeaveRoom(u) ==
    /\ HubReady
    /\ u \in clients
    /\ IF clientRoomID[u] = 0
       THEN /\ Apply(sendClientError(World, u, "NOT_IN_ROOM"))
            /\ UNCHANGED << hubVars, roomLive >>
       ELSE IF ~GetRoom(clientRoomID[u])
       THEN /\ Apply(sendClientError(World, u, "ROOM_NOT_FOUND"))
            /\ UNCHANGED << hubVars, roomLive >>
       ELSE LET rid == clientRoomID[u]
                rm == RemovePlayer(room, u)
            IN  /\ roomLive' = (rm.Players # {} \/ u \notin room.Players)
                /\ clientsByRoom' = removeClientFromRoom(clientsByRoom, u, rid)
                /\ clientRoomID' = [clientRoomID EXCEPT ![u] = 0]
                /\ UNCHANGED clients
                /\ Apply(SendMessage(
                       BroadcastToRoom([World EXCEPT !.room = rm,
                                                     !.hist = [hist EXCEPT !.leaves = @ + 1]],
                                       rid,
                                       Frame("player_left", u, NoWord, 0, 0), NoUser),
                       u, Frame("chat_message", NoUser, "You have left the room", 0, 0)))
    /\ UNCHANGED << roomsCreated, hubPc, hubLocal, timers >>
    /\ UNCHANGED layerVars

\* User.SetReady(true) (user.go 78-82).  No message handler under src/ calls
\* it; it stands for the way players mark themselves ready before start_game.
SetReady(u) ==
    /\ HubReady
    /\ u \in clients
    /\ roomLive /\ u \in room.Players /\ room.State = "lobby"
    /\ ~user[u].IsReady
    /\ user' = [user EXCEPT ![u].IsReady = TRUE]
    /\ lastSent' = {}
    /\ UNCHANGED << hubVars, roomBroadcast, roomsCreated, roomLive, room, elapsed,
                    hubPc, hubLocal, timers, crashed, hist >>
    /\ UNCHANGED layerVars

\* handleStartGame (websocket.go 254-278)
handleStartGame(u, word) ==
    /\ HubReady
    /\ u \in clients
    /\ IF clientRoomID[u] = 0
       THEN Apply(sendClientError(World, u, "NOT_IN_ROOM")) /\ UNCHANGED timers
       ELSE IF ~GetRoom(clientRoomID[u])
       THEN Apply(sendClientError(World, u, "ROOM_NOT_FOUND")) /\ UNCHANGED timers
       ELSE IF room.HostID # u
       THEN Apply(sendClientError(World, u, "NOT_HOST")) /\ UNCHANGED timers
       ELSE IF ~CanStart(room, user)
       THEN Apply(sendClientError(World, u, "CANNOT_START")) /\ UNCHANGED timers
       ELSE /\ LET w == HandleGameStart(World, clientRoomID[u], word)
               IN  Apply(w) /\ timers' = timers \cup w.spawn
    /\ UNCHANGED << hubVars, roomsCreated, roomLive, hubPc, hubLocal >>
    /\ UNCHANGED layerVars

\* handleSendGuess (websocket.go 435-478) up to ValidateGuess l.33-44: the
\* guess goes to the whole room as a chat message before it is validated.
CountSubmit(h, rm, u, g) ==
    IF g = rm.CurrentWord /\ u \in rm.Players /\ u # rm.CurrentDrawer
    THEN [h EXCEPT !.correctSubmits = [@ EXCEPT ![u] = Capped(@)]]
    ELSE h

handleSendGuess(u, g) ==
    /\ HubReady
    /\ u \in clients
    /\ IF clientRoomID[u] = 0
       THEN Apply(sendClientError(World, u, "NOT_IN_ROOM")) /\ UNCHANGED << hubPc, hubLocal >>
       ELSE IF ~GetRoom(clientRoomID[u])
       THEN Apply(sendClientError(World, u, "ROOM_NOT_FOUND")) /\ UNCHANGED << hubPc, hubLocal >>
       ELSE IF room.State # "playing" \/ room.Phase # "drawing"
       THEN Apply(sendClientError(World, u, "INVALID_STATE")) /\ UNCHANGED << hubPc, hubLocal >>
       ELSE LET rid == clientRoomID[u]
                w0 == BroadcastToRoom(
                          [World EXCEPT !.hist = CountSubmit(hist, room, u, g)],
                          rid, Frame("chat_message", u, g, 0, 0), NoUser)
            IN  IF GuessRejected(room, user, u)
                THEN Apply(w0) /\ UNCHANGED << hubPc, hubLocal >>
                ELSE IF g # room.CurrentWord
                THEN /\ Apply([w0 EXCEPT !.user = RecordGuess(user, u, FALSE, 0, elapsed)])
                     /\ UNCHANGED << hubPc, hubLocal >>
                ELSE /\ Apply(w0)
                     /\ hubPc' = "award"
                     /\ hubLocal' = [hubLocal EXCEPT !.user = u, !.rid = rid]
    /\ UNCHANGED << hubVars, roomsCreated, roomLive, timers >>
    /\ UNCHANGED layerVars

\* handleSendGuess, the correct guess: ValidateGuess l.46-80 and websocket.go
\* 480-523, on the room as the round timer has left it meanwhile.
handleSendGuessAward ==
    /\ ~crashed
    /\ hubPc = "award"
    /\ LET u == hubLocal.user
           w1 == ValidateGuessAward(World, u)
           w2 == SendGuessResult(w1, hubLocal.rid, u, GuessPoints(room, elapsed))
       IN  /\ Apply(w2)
           /\ hubPc' = IF RoundEnding(w1.room, elapsed) THEN "end" ELSE "idle"
    /\ UNCHANGED << hubVars, roomsCreated, roomLive, hubLocal, timers >>
    /\ UNCHANGED layerVars

\* HandleRoundEnd called by handleSendGuess (websocket.go 521-523)
hubHandleRoundEndScore ==
    /\ ~crashed
    /\ hubPc = "end"
    /\ IF ~GetRoom(hubLocal.rid)
       THEN /\ hubPc' = "idle"
            /\ lastSent' = {}
            /\ UNCHANGED << room, user, hist, elapsed, roomBroadcast, crashed, hubLocal >>
       ELSE /\ Apply(HandleRoundEndBuild(HandleRoundEndScore(World)))
            /\ hubPc' = "bcast"
            /\ hubLocal' = [hubLocal EXCEPT !.data =
                   RoundEndData(room, user, hist.roundSeq, DrawerPointsNow(room))]
    /\ UNCHANGED << hubVars, roomsCreated, roomLive, timers >>
    /\ UNCHANGED layerVars

\* HandleRoundEnd called by handleSendGuess, l.435-445 on their own
hubHandleRoundEndAward ==
    /\ ~crashed
    /\ hubPc = "end"
    /\ IF ~GetRoom(hubLocal.rid)
       THEN /\ hubPc' = "idle"
            /\ lastSent' = {}
            /\ UNCHANGED << room, user, hist, elapsed, roomBroadcast, crashed, hubLocal >>
       ELSE /\ Apply(HandleRoundEndScore(World))
            /\ hubPc' = "build"
            /\ hubLocal' = [hubLocal EXCEPT !.data =
                                [NoData EXCEPT !.DrawerPoints = DrawerPointsNow(room)]]
    /\ UNCHANGED << hubVars, roomsCreated, roomLive, timers >>
    /\ UNCHANGED layerVars

\* HandleRoundEnd called by handleSendGuess, l.447-497
hubHandleRoundEndBuild ==
    /\ ~crashed
    /\ hubPc = "build"
    /\ Apply(HandleRoundEndBuild(World))
    /\ hubPc' = "bcast"
    /\ hubLocal' = [hubLocal EXCEPT !.data =
                        RoundEndData(room, user, hist.roundSeq, hubLocal.data.DrawerPoints)]
    /\ UNCHANGED << hubVars, roomsCreated, roomLive, timers >>
    /\ UNCHANGED layerVars

hubHandleRoundEndBroadcast(word, winner) ==
    /\ ~crashed
    /\ hubPc = "bcast"
    /\ winner \in Winners(room, user)
    /\ LET w == HandleRoundEndBroadcast(World, hubLocal.rid, hubLocal.data, word, winner)
       IN  Apply(w) /\ timers' = timers \cup w.spawn
    /\ hubPc' = "idle"
    /\ hubLocal' = [hubLocal EXCEPT !.data = NoData, !.user = NoUser]
    /\ UNCHANGED << hubVars, roomsCreated, roomLive >>
    /\ UNCHANGED layerVars

\* Hub.broadcastToRoom (hub.go 373-397) for the next RoomMessage of the channel
broadcastToRoom ==
    /\ HubIdle
    /\ roomBroadcast # << >>
    /\ LET m == Head(roomBroadcast)
       IN  lastSent' = {[to |-> c, frame |-> m.Message] :
                           c \in {d \in clientsByRoom[m.RoomID] :
                                     d # m.Exclude /\ d \in clients}}
    /\ roomBroadcast' = Tail(roomBroadcast)
    /\ hist' = SeenNewRound(hist, lastSent')
    /\ UNCHANGED << hubVars, roomsCreated, roomLive, room, user, elapsed, hubPc,
                    hubLocal, timers, crashed >>
    /\ UNCHANGED layerVars

\* Client.disconnect (client.go 263-286) and Hub.unregisterClient (hub.go
\* 287-311): the connection leaves the hub's maps; the room keeps the player.
unregisterClient(u) ==
    /\ HubReady
    /\ u \in clients
    /\ clients' = clients \ {u}
    /\ IF clientRoomID[u] # 0
       THEN /\ clientsByRoom' = removeClientFromRoom(clientsByRoom, u, clientRoomID[u])
            /\ clientRoomID' = [clientRoomID EXCEPT ![u] = 0]
       ELSE UNCHANGED << clientsByRoom, clientRoomID >>
    /\ lastSent' = {}
    /\ UNCHANGED << roomBroadcast, roomsCreated, roomLive, room, user, elapsed,
                    hubPc, hubLocal, timers, crashed, hist >>
    /\ UNCHANGED layerVars

\* A second of wall-clock time passes: every ticker (time.NewTicker(time.Second),
\* config.go 584) has a tick ready; a ticker keeps at most one.
ClockTick ==
    /\ ~crashed
    /\ room.RoundEndTimeSet
    /\ elapsed < RoundTime + MaxOvertime
    /\ elapsed' = elapsed + 1
    /\ timers' = {[t EXCEPT !.due = TRUE] : t \in timers}
    /\ lastSent' = {}
    /\ UNCHANGED << hubVars, roomBroadcast, roomsCreated, roomLive, room, user,
                    hubPc, hubLocal, crashed, hist >>
    /\ UNCHANGED layerVars

\* runRoundTimer (config.go 578-609), one firing of the ticker.  The timer
\* keeps the Room it looked up when it started; the timer of a room older than
\* the newest one reaches nobody and is left out from then on.
runRoundTimer(t) ==
    /\ ~crashed
    /\ t \in timers
    /\ t.pc = "tick"
    /\ t.due
    /\ IF t.Room # roomsCreated
       THEN /\ timers' = timers \ {t}
            /\ lastSent' = {}
            /\ UNCHANGED << room, user, hist, elapsed, roomBroadcast, crashed >>
       ELSE LET timeLeft == GetTimeLeft(room, elapsed)
            IN  /\ Apply(BroadcastToRoom(World, t.Room,
                             Frame("timer", NoUser, room.Phase, timeLeft, 0), NoUser))
                /\ timers' = IF timeLeft <= 0
                             THEN (timers \ {t}) \cup {[t EXCEPT !.pc = "end", !.due = FALSE]}
                             ELSE (timers \ {t}) \cup {[t EXCEPT !.due = FALSE]}
    /\ UNCHANGED << hubVars, roomsCreated, roomLive, hubPc, hubLocal >>
    /\ UNCHANGED layerVars

\* HandleRoundEnd called by the timer (config.go 603-606)
timerHandleRoundEndScore(t) ==
    /\ ~crashed
    /\ t \in timers
    /\ t.pc = "end"
    /\ IF ~GetRoom(t.Room)
       THEN /\ timers' = timers \ {t}
            /\ lastSent' = {}
            /\ UNCHANGED << room, user, hist, elapsed, roomBroadcast, crashed >>
       ELSE /\ Apply(HandleRoundEndBuild(HandleRoundEndScore(World)))
            /\ timers' = (timers \ {t}) \cup
                   {[t EXCEPT !.pc = "bcast",
                              !.data = RoundEndData(room, user, hist.roundSeq,
                                                    DrawerPointsNow(room))]}
    /\ UNCHANGED << hubVars, roomsCreated, roomLive, hubPc, hubLocal >>
    /\ UNCHANGED layerVars

\* HandleRoundEnd called by the timer, l.435-445 on their own
timerHandleRoundEndAward(t) ==
    /\ ~crashed
    /\ t \in timers
    /\ t.pc = "end"
    /\ IF ~GetRoom(t.Room)
       THEN /\ timers' = timers \ {t}
            /\ lastSent' = {}
            /\ UNCHANGED << room, user, hist, elapsed, roomBroadcast, crashed >>
       ELSE /\ Apply(HandleRoundEndScore(World))
            /\ timers' = (timers \ {t}) \cup
                   {[t EXCEPT !.pc = "build",
                              !.data = [NoData EXCEPT
                                           !.DrawerPoints = DrawerPointsNow(room)]]}
    /\ UNCHANGED << hubVars, roomsCreated, roomLive, hubPc, hubLocal >>
    /\ UNCHANGED layerVars

\* HandleRoundEnd called by the timer, l.447-497
timerHandleRoundEndBuild(t) ==
    /\ ~crashed
    /\ t \in timers
    /\ t.pc = "build"
    /\ Apply(HandleRoundEndBuild(World))
    /\ timers' = (timers \ {t}) \cup
           {[t EXCEPT !.pc = "bcast",
                      !.data = RoundEndData(room, user, hist.roundSeq, t.data.DrawerPoints)]}
    /\ UNCHANGED << hubVars, roomsCreated, roomLive, hubPc, hubLocal >>
    /\ UNCHANGED layerVars

timerHandleRoundEndBroadcast(t, word, winner) ==
    /\ ~crashed
    /\ t \in timers
    /\ t.pc = "bcast"
    /\ winner \in Winners(room, user)
    /\ IF t.Room # roomsCreated
       THEN /\ Apply(BroadcastToRoom(World, t.Room,
                         Frame("round_ended", t.data.DrawerID, t.data.Word,
                               t.data.NextRound, t.data.DrawerPoints), NoUser))
            /\ timers' = timers \ {t}
       ELSE LET w == HandleRoundEndBroadcast(World, t.Room, t.data, word, winner)
            IN  Apply(w) /\ timers' = (timers \ {t}) \cup w.spawn
    /\ UNCHANGED << hubVars, roomsCreated, roomLive, hubPc, hubLocal >>
    /\ UNCHANGED layerVars

(***************************************************************************)
(* What a run may spend.  These guards bound the runs the model explores;   *)
(* they are not conditions of the code.                                     *)
(***************************************************************************)
\* u's leave_room would be carried out (not answered with an error).
LeaveBudget(u, n) == (clientRoomID[u] # 0 /\ GetRoom(clientRoomID[u])) => hist.leaves < n

DisconnectBudget(n) == Cardinality(Users \ clients) < n

\* Leaves and disconnections so far.
Faults == hist.leaves + Cardinality(Users \ clients)

\* u's start_game would start a game.
StartBudget(u) ==
    (clientRoomID[u] # 0 /\ GetRoom(clientRoomID[u]) /\ room.HostID = u
        /\ CanStart(room, user))
    => (room.Games < MaxGames /\ hist.roundSeq < MaxRoundSeq)

\* The run still has a round to begin, or the round that ends is the last.
RoundBudget == room.CurrentRound >= room.MaxRounds \/ hist.roundSeq < MaxRoundSeq

\* Users are interchangeable: while nobody leaves, a user joins after the
\* users before it, without loss of generality.
JoinOrder(u) == \A v \in Users : v < u => v \in room.Players

\* The game: a room of GamePlayers and one more connection that knocks, every
\* interleaving of the hub loop with the round timers.
Next ==
    \/ \E u \in Creators, maxRounds \in {1, MaxRoundsBound} :
           handleCreateRoom(u, GamePlayers, maxRounds)
    \/ \E u \in Users : JoinOrder(u) /\ handleJoinRoom(u)
    \/ \E u \in Users : LeaveBudget(u, 0) /\ handleLeaveRoom(u)
    \/ \E u \in Users : SetReady(u)
    \/ \E u \in Users, word \in Words : StartBudget(u) /\ handleStartGame(u, word)
    \/ \E u \in Users, g \in Guesses : handleSendGuess(u, g)
    \/ handleSendGuessAward
    \/ hubHandleRoundEndScore
    \/ \E word \in Words, winner \in Users \cup {NoUser} :
           RoundBudget /\ hubHandleRoundEndBroadcast(word, winner)
    \/ broadcastToRoom
    \/ ClockTick
    \/ \E t \in timers : runRoundTimer(t)
    \/ \E t \in timers : timerHandleRoundEndScore(t)
    \/ \E t \in timers, word \in Words, winner \in Users \cup {NoUser} :
           RoundBudget /\ timerHandleRoundEndBroadcast(t, word, winner)

Spec == Init /\ [][Next]_vars

\* The Go scheduler and the tickers: a second passes while a clock runs, a
\* timer goroutine whose ticker has fired runs, the hub loop goes on inside a
\* handler and empties roomBroadcast.
SpecLive ==
    /\ Spec
    /\ WF_vars(ClockTick)
    /\ WF_vars(\E t \in timers : runRoundTimer(t))
    /\ WF_vars(\E t \in timers : timerHandleRoundEndScore(t))
    /\ WF_vars(handleSendGuessAward)
    /\ WF_vars(hubHandleRoundEndScore)
    /\ WF_vars(broadcastToRoom)

\* The game with players that leave and connections that close.
FaultNext ==
    \/ \E u \in Creators, maxRounds \in {1, MaxRoundsBound} :
           handleCreateRoom(u, GamePlayers, maxRounds)
    \/ \E u \in Users : JoinOrder(u) /\ hist.leaves = 0 /\ handleJoinRoom(u)
    \/ \E u \in Users : LeaveBudget(u, MaxFaults - Faults + hist.leaves) /\ handleLeaveRoom(u)
    \/ \E u \in Users : SetReady(u)
    \/ \E u \in Users, word \in Words : StartBudget(u) /\ handleStartGame(u, word)
    \/ \E u \in Users, g \in Guesses : handleSendGuess(u, g)
    \/ handleSendGuessAward
    \/ hubHandleRoundEndScore
    \/ \E word \in Words, winner \in Users \cup {NoUser} :
           RoundBudget /\ hubHandleRoundEndBroadcast(word, winner)
    \/ broadcastToRoom
    \/ \E u \in Users : Faults < MaxFaults /\ unregisterClient(u)
    \/ ClockTick
    \/ \E t \in timers : runRoundTimer(t)
    \/ \E t \in timers : timerHandleRoundEndScore(t)
    \/ \E t \in timers, word \in Words, winner \in Users \cup {NoUser} :
           RoundBudget /\ timerHandleRoundEndBroadcast(t, word, winner)

FaultSpec == Init /\ [][FaultNext]_vars

\* The lobby: rooms of every size tried, joins and leaves in every order.
LobbyNext ==
    \/ \E u \in Creators, maxPlayers \in GamePlayers..MaxPlayersBound :
           handleCreateRoom(u, maxPlayers, 1)
    \/ \E maxPlayers \in GamePlayers..MaxPlayersBound : CreateRoom(maxPlayers, 1)
    \/ \E u \in Users : handleJoinRoom(u)
    \/ \E u \in Users : LeaveBudget(u, LobbyMaxLeaves) /\ handleLeaveRoom(u)
    \/ \E u \in Users : SetReady(u)
    \/ broadcastToRoom
    \/ \E u \in Users : DisconnectBudget(MaxDisconnects) /\ unregisterClient(u)

LobbySpec == Init /\ [][LobbyNext]_vars

----------------------------------------------------------------------------
(***************************************************************************)
(* The registry under create, join, leave and cleanup.                     *)
(***************************************************************************)
\* handleCreateRoom (websocket.go 127-136): RoomManager.CreateRoom (32-42),
\* hub.AddClientToRoom with the new room's id, RoomManager.JoinRoom with that
\* id, which rm.rooms now leads to the new room.
registryCreateRoom(u, id, code) ==
    /\ Len(roomObjs) < MaxRoomObjects
    /\ LET n == Len(roomObjs) + 1
       IN  /\ roomObjs' = Append(roomObjs,
                   [NewRoomObject(id, code, u) EXCEPT !.Players = {u}])
           /\ rooms' = [rooms EXCEPT ![id] = n]
           /\ roomByCode' = [roomByCode EXCEPT ![code] = n]
    /\ clientRoom' = [clientRoom EXCEPT ![u] = id]
    /\ roomSets' = addClientToRoomSets(roomSets, u, id)
    /\ UNCHANGED notRegistryVars

\* CreateRoom of POST /api/rooms (config.go 644-678) on the registry
registryCreateRoomHTTP(id, code) ==
    /\ Len(roomObjs) < MaxRoomObjects
    /\ LET n == Len(roomObjs) + 1
       IN  /\ roomObjs' = Append(roomObjs, NewRoomObject(id, code, GuestHost))
           /\ rooms' = [rooms EXCEPT ![id] = n]
           /\ roomByCode' = [roomByCode EXCEPT ![code] = n]
    /\ UNCHANGED << clientRoom, roomSets, notRegistryVars >>

\* handleJoinRoom (websocket.go 180-193): the room is looked up by code, and
\* RoomManager.JoinRoom (75-89) looks up rm.rooms with that room's id.
registryJoinRoom(u, code) ==
    /\ GetRoomByCode(code) # NoRoom
    /\ LET id == roomObjs[GetRoomByCode(code)].ID
       IN  IF RegistryJoinOk(id, u)
           THEN /\ roomObjs' = [roomObjs EXCEPT ![rooms[id]].Players = @ \cup {u},
                                                ![rooms[id]].Active = TRUE]
                /\ clientRoom' = [clientRoom EXCEPT ![u] = id]
                /\ roomSets' = addClientToRoomSets(roomSets, u, id)
           ELSE UNCHANGED << roomObjs, clientRoom, roomSets >>
    /\ UNCHANGED << rooms, roomByCode, notRegistryVars >>

\* handleLeaveRoom (websocket.go 219-236) with RoomManager.LeaveRoom (92-111)
registryLeaveRoom(u) ==
    /\ clientRoom[u] # NoRoom
    /\ LET id == clientRoom[u]
           n == RegistryGetRoom(id)
       IN  IF n = NoRoom
           THEN UNCHANGED << rooms, roomByCode, roomObjs, clientRoom, roomSets >>
           ELSE /\ clientRoom' = [clientRoom EXCEPT ![u] = NoRoom]
                /\ roomSets' = removeClientFromRoomSets(roomSets, u, id)
                /\ IF u \in roomObjs[n].Players
                   THEN /\ roomObjs' = [roomObjs EXCEPT ![n].Players = @ \ {u},
                                                        ![n].Active = TRUE]
                        /\ IF roomObjs[n].Players = {u}
                           THEN /\ rooms' = [rooms EXCEPT ![id] = NoRoom]
                                /\ roomByCode' = DeleteCode(roomByCode, n)
                           ELSE UNCHANGED << rooms, roomByCode >>
                   ELSE UNCHANGED << rooms, roomByCode, roomObjs >>
    /\ UNCHANGED notRegistryVars

\* InactiveRoomTimeout passes without activity in a room of the registry.
roomGrowsInactive(n) ==
    /\ n \in 1..Len(roomObjs)
    /\ \E id \in RoomIDs : rooms[id] = n
    /\ roomObjs[n].Active
    /\ roomObjs' = [roomObjs EXCEPT ![n].Active = FALSE]
    /\ UNCHANGED << rooms, roomByCode, clientRoom, roomSets, notRegistryVars >>

\* RoomManager.cleanupInactiveRooms (room_manager.go 149-162)
cleanupInactiveRooms ==
    /\ \E id \in RoomIDs : rooms[id] # NoRoom /\ ~roomObjs[rooms[id]].Active
    /\ LET gone == {id \in RoomIDs : rooms[id] # NoRoom /\ ~roomObjs[rooms[id]].Active}
       IN  /\ rooms' = [id \in RoomIDs |-> IF id \in gone THEN NoRoom ELSE rooms[id]]
           /\ roomByCode' = [c \in Codes |->
                   IF \E id \in gone : roomObjs[rooms[id]].Code = c
                   THEN NoRoom ELSE roomByCode[c]]
    /\ UNCHANGED << roomObjs, clientRoom, roomSets, notRegistryVars >>

RegistryNext ==
    \/ \E u \in Users, id \in RoomIDs, code \in Codes : registryCreateRoom(u, id, code)
    \/ \E id \in RoomIDs, code \in Codes : registryCreateRoomHTTP(id, code)
    \/ \E u \in Users, code \in Codes : registryJoinRoom(u, code)
    \/ \E u \in Users : registryLeaveRoom(u)
    \/ \E n \in 1..MaxRoomObjects : roomGrowsInactive(n)
    \/ cleanupInactiveRooms

RegistrySpec == Init /\ [][RegistryNext]_vars

\* Hub.unregisterClient (hub.go 287-311) for the connection of user u, after
\* Client.disconnect (client.go 262-286) has sent it on hub.unregister: the
\* connection leaves h.clients and the set of its room.  Neither of the two
\* calls RoomManager.LeaveRoom: the room keeps the user as a player.
registryUnregisterClient(u) ==
    /\ u \in clients
    /\ clients' = clients \ {u}
    /\ IF clientRoom[u] # NoRoom
       THEN /\ roomSets' = removeClientFromRoomSets(roomSets, u, clientRoom[u])
            /\ clientRoom' = [clientRoom EXCEPT ![u] = NoRoom]
       ELSE UNCHANGED << clientRoom, roomSets >>
    /\ UNCHANGED << rooms, roomByCode, roomObjs >>
    /\ UNCHANGED << clientRoomID, clientsByRoom, roomBroadcast, roomsCreated, roomLive,
                    room, user, elapsed, hubPc, hubLocal, timers, crashed, lastSent,
                    hist, connVars, drawVars, mainVars >>

\* The registry and the hub's room index under the messages of the registered
\* connections and the end of connections.
IndexNext ==
    \/ \E u \in clients, id \in RoomIDs, code \in Codes : registryCreateRoom(u, id, code)
    \/ \E u \in clients, code \in Codes : registryJoinRoom(u, code)
    \/ \E u \in clients : registryLeaveRoom(u)
    \/ \E u \in Users : registryUnregisterClient(u)

IndexSpec == Init /\ [][IndexNext]_vars

----------------------------------------------------------------------------
(***************************************************************************)
(* The hub loop and the connections.                                       *)
(***************************************************************************)
\* ServeWS (websocket.go 16-40): the next connection is accepted with the
\* user id uid; Hub.RegisterClient (hub.go 137-144) disconnects it when the
\* register channel is full.
ServeWS(c, uid) ==
    /\ conn[c].user = NoUser
    /\ \A d \in Conns : d < c => conn[d].user # NoUser
    /\ IF Len(register) < RegisterCap
       THEN /\ register' = Append(register, c)
            /\ conn' = [conn EXCEPT ![c] = NewClient(uid)]
       ELSE /\ conn' = disconnectBegin([conn EXCEPT ![c] = NewClient(uid)], c, "other")
            /\ UNCHANGED register
    /\ UNCHANGED << hClients, clientsByUserID, unregister, hubTask, notConnVars >>

\* Hub.registerClient (hub.go 266-285) up to the return of
\* oldClient.Disconnect(), or to its send on hub.unregister.
registerClient ==
    /\ hubTask = AtSelect
    /\ register # << >>
    /\ LET c == Head(register)
           uid == conn[c].user
           old == clientsByUserID[uid]
       IN  /\ register' = Tail(register)
           /\ hClients' = hClients \cup {c}
           /\ IF old = NoConn
              THEN /\ clientsByUserID' = [clientsByUserID EXCEPT ![uid] = c]
                   /\ UNCHANGED << conn, hubTask >>
              ELSE /\ conn' = [disconnectBegin(conn, old, "hub") EXCEPT
                                  ![old].replacedBy = c]
                   /\ IF WasConnected(conn[old])
                      THEN /\ hubTask' = [AtSelect EXCEPT !.pc = "register", !.conn = old,
                                                           !.newc = c]
                           /\ UNCHANGED clientsByUserID
                      ELSE /\ clientsByUserID' = [clientsByUserID EXCEPT ![uid] = c]
                           /\ UNCHANGED hubTask
    /\ UNCHANGED << unregister, notConnVars >>

\* A variant that puts the frame on every connection's send queue.
QueueFrame_All(cn, c, f) == [d \in Conns |-> [cn[d] EXCEPT !.send = Append(@, f)]]

\* "c.send <- messageBytes" (client.go 230-232); the frame 0 is one that is
\* no draw_data.
QueueFrame(cn, c, f) == [cn EXCEPT ![c].send = Append(@, f)]

\* Client.SendMessage (client.go 220-238) called in the hub loop: nothing for
\* a client that is not connected; else the frame goes into the send queue,
\* or the queue is full and the hub loop itself runs c.disconnect().
ClientSendMessage(c, f) ==
    IF ~conn[c].isConnected
    THEN UNCHANGED << conn, hubTask >>
    ELSE IF Len(conn[c].send) < SendCap
    THEN /\ conn' = QueueFrame(conn, c, f)
         /\ UNCHANGED hubTask
    ELSE /\ conn' = disconnectBegin(conn, c, "hub")
         /\ hubTask' = [AtSelect EXCEPT !.pc = "message", !.conn = c]

\* Client.SendMessage called by a handler in the hub loop for a connected
\* client.
hubSendMessage(c) ==
    /\ hubTask = AtSelect
    /\ c \in hClients
    /\ conn[c].isConnected
    /\ ClientSendMessage(c, 0)
    /\ UNCHANGED << hClients, clientsByUserID, register, unregister, notConnVars >>

\* The hub loop's own Client.disconnect gets its event into hub.unregister
\* (client.go 276-282); registerClient then stores the new client (hub.go 281).
hubDisconnectEnqueue ==
    /\ hubTask.pc \in {"register", "message", "shutdown"}
    /\ hubTask.conn # NoConn
    /\ Len(unregister) < UnregisterCap
    /\ unregister' = Append(unregister, hubTask.conn)
    /\ conn' = disconnectFinish(conn, hubTask.conn)
    /\ clientsByUserID' = IF hubTask.pc = "register"
                          THEN [clientsByUserID EXCEPT
                                   ![conn[hubTask.newc].user] = hubTask.newc]
                          ELSE clientsByUserID
    /\ hubTask' = IF hubTask.pc = "shutdown" THEN [hubTask EXCEPT !.conn = NoConn]
                  ELSE AtSelect
    /\ UNCHANGED << hClients, register, notConnVars >>

\* Hub.unregisterClient (hub.go 287-311) for the next event of hub.unregister
unregisterEvent ==
    /\ hubTask = AtSelect
    /\ unregister # << >>
    /\ LET c == Head(unregister)
       IN  IF c \in hClients
           THEN /\ hClients' = hClients \ {c}
                /\ clientsByUserID' = DeleteByUserID(clientsByUserID, conn[c].user, c)
           ELSE UNCHANGED << hClients, clientsByUserID >>
    /\ unregister' = Tail(unregister)
    /\ UNCHANGED << conn, register, hubTask, notConnVars >>

\* The fan-out of the hub loop to one client (hub.go 362-368, 389-395,
\* 405-410): a full send queue starts "go client.Disconnect()".
hubFanOut(c) ==
    /\ hubTask = AtSelect
    /\ c \in hClients
    /\ conn[c].isConnected
    /\ IF Len(conn[c].send) < SendCap
       THEN conn' = [conn EXCEPT ![c].send = Append(@, 0)]
       ELSE /\ conn[c].goDisconnects + conn[c].calls < MaxDisconnectCalls
            /\ conn' = [conn EXCEPT ![c].goDisconnects = @ + 1]
    /\ UNCHANGED << hClients, clientsByUserID, register, unregister, hubTask,
                    notConnVars >>

\* A goroutine started by "go client.Disconnect()" runs Client.disconnect up
\* to its send.
goDisconnect(c) ==
    /\ conn[c].goDisconnects > 0
    /\ conn' = disconnectBegin([conn EXCEPT ![c].goDisconnects = @ - 1], c, "other")
    /\ UNCHANGED << hClients, clientsByUserID, register, unregister, hubTask,
                    notConnVars >>

\* ReadPump (client.go 119-173) ends: its deferred c.disconnect() up to the send.
readPumpExit(c) ==
    /\ conn[c].reading
    /\ conn' = disconnectBegin([conn EXCEPT ![c].reading = FALSE], c, "other")
    /\ UNCHANGED << hClients, clientsByUserID, register, unregister, hubTask,
                    notConnVars >>

\* A goroutine other than the hub loop gets its event into hub.unregister
\* and closes the stream and the send queue (client.go 276-282).
disconnectEnqueue(c) ==
    /\ conn[c].atSend = "other"
    /\ Len(unregister) < UnregisterCap
    /\ unregister' = Append(unregister, c)
    /\ conn' = disconnectFinish(conn, c)
    /\ UNCHANGED << hClients, clientsByUserID, register, hubTask, notConnVars >>

\* The draw_data frames among those written (the others have number 0).
DrawFrames(batch) == SelectSeq(batch, LAMBDA n : n > 0)

\* WritePump (client.go 183-208) writes the first frame of the send queue and
\* then the ones queued behind it, in the order of the queue.
WritePump(c) ==
    /\ conn[c].send # << >>
    /\ conn' = [conn EXCEPT ![c].send = << >>]
    /\ wire' = [wire EXCEPT ![c] = @ \o DrawFrames(conn[c].send)]
    /\ UNCHANGED << hClients, clientsByUserID, register, unregister, hubTask,
                    gameVars, registryVars, messageHandler, drawn, calc, mainVars >>

\* Hub.cleanupDisconnectedClients (hub.go 428-456), under h.mutex, which
\* registerClient and shutdownAllClients hold while they run.
cleanupDisconnectedClients ==
    /\ hubTask.pc \notin {"register", "shutdown"}
    /\ \E c \in hClients : ~conn[c].isConnected
    /\ LET gone == {c \in hClients : ~conn[c].isConnected}
       IN  /\ hClients' = hClients \ gone
           /\ clientsByUserID' = [u \in Users |->
                   IF clientsByUserID[u] \in gone THEN NoConn ELSE clientsByUserID[u]]
    /\ UNCHANGED << conn, register, unregister, hubTask, notConnVars >>

\* The connections the runs send frames to: those of the user who reconnects.
\* The other connections only close.
Watched(c) == conn[c].user \in Creators

\* Of the other connections, MaxDisconnects close over a run.
BystanderBudget ==
    Cardinality({c \in Conns : conn[c].user \notin Creators \cup {NoUser}
                                /\ ~conn[c].reading}) < MaxDisconnects

HubNext ==
    \/ \E c \in Conns, uid \in Creators : ServeWS(c, uid)
    \/ registerClient
    \/ \E c \in Conns : Watched(c) /\ hubSendMessage(c)
    \/ hubDisconnectEnqueue
    \/ unregisterEvent
    \/ \E c \in Conns : Watched(c) /\ hubFanOut(c)
    \/ \E c \in Conns : goDisconnect(c)
    \/ \E c \in Conns : (Watched(c) \/ BystanderBudget) /\ readPumpExit(c)
    \/ \E c \in Conns : disconnectEnqueue(c)
    \/ \E c \in Conns : WritePump(c)
    \/ cleanupDisconnectedClients

HubSpec == Init /\ [][HubNext]_vars

\* The fan-out of the hub loop to one client in its two steps (hub.go 362-363,
\* 389-390, 405-406; client.go 221-223): first "client.IsConnected()", which
\* takes and releases the client's mutex and is found true.
hubFanOutCheck(c) ==
    /\ ~crashed
    /\ hubTask = AtSelect
    /\ c \in hClients
    /\ conn[c].isConnected
    /\ hubTask' = [AtSelect EXCEPT !.pc = "fanout", !.conn = c]
    /\ UNCHANGED << conn, hClients, clientsByUserID, register, unregister, notConnVars >>

\* Then the select with "client.send <- message" (hub.go 364-368, 390-395,
\* 406-410; client.go 230-237), on the queue as it is by now: a send on a
\* closed channel panics, and nothing recovers the panic in the hub loop.
hubFanOutSend ==
    /\ hubTask.pc = "fanout"
    /\ LET c == hubTask.conn
       IN  IF conn[c].closed > 0
           THEN crashed' = TRUE /\ UNCHANGED conn
           ELSE /\ UNCHANGED crashed
                /\ conn' = IF Len(conn[c].send) < SendCap
                           THEN QueueFrame(conn, c, 0)
                           ELSE [conn EXCEPT ![c].goDisconnects =
                                    IF @ + conn[c].calls < MaxDisconnectCalls
                                    THEN @ + 1 ELSE @]
    /\ hubTask' = AtSelect
    /\ UNCHANGED << hClients, clientsByUserID, register, unregister >>
    /\ UNCHANGED << hubVars, roomBroadcast, roomsCreated, roomLive, room, user, elapsed,
                    hubPc, hubLocal, timers, lastSent, hist >>
    /\ UNCHANGED << registryVars, drawVars, mainVars >>

\* The fan-out in its two steps and the connections closing meanwhile.  The
\* write pumps do not run: the send queues fill.
FanOutNext ==
    \/ \E c \in Conns : hubFanOutCheck(c)
    \/ hubFanOutSend
    \/ \E c \in Conns : ~crashed /\ readPumpExit(c)
    \/ \E c \in Conns : ~crashed /\ goDisconnect(c)
    \/ \E c \in Conns : ~crashed /\ disconnectEnqueue(c)
    \/ ~crashed /\ unregisterEvent

FanOutSpec == Init /\ [][FanOutNext]_vars

----------------------------------------------------------------------------
(***************************************************************************)
(* Room codes: generateRoomCode of models (room.go 454-462) with the       *)
(* generateRandomInt of user.go 212-215, NormalizeRoomCode and             *)
(* ValidateRoomCode of utils (room_code.go 48-71), and create_room,        *)
(* join_room and leave_room on the registry with the id and the code the   *)
(* generators return.  A text is a sequence of characters.                 *)
(***************************************************************************)
\* const charset of generateRoomCode (room.go 456)
charset ==
    << "A", "B", "C", "D", "E", "F", "G", "H", "I", "J", "K", "L", "M", "N", "O", "P",
       "Q", "R", "S", "T", "U", "V", "W", "X", "Y", "Z",
       "0", "1", "2", "3", "4", "5", "6", "7", "8", "9" >>

\* const roomCodeChars of utils (room_code.go 12): no O, no 0, no 1.
roomCodeChars ==
    { "A", "B", "C", "D", "E", "F", "G", "H", "I", "J", "K", "L", "M", "N", "P",
      "Q", "R", "S", "T", "U", "V", "W", "X", "Y", "Z",
      "2", "3", "4", "5", "6", "7", "8", "9" }

roomCodeLength == 6

\* models.generateRandomInt (user.go 212-215): "return 0 // Placeholder".
generateRandomInt(max) == 0

\* models.generateRoomCode: six times charset[generateRandomInt(len(charset))].
generateRoomCode ==
    [i \in 1..roomCodeLength |-> charset[generateRandomInt(Len(charset)) + 1]]

\* models.generateRoomID: "room_" + generateRandomString(12), and
\* generateRandomString (user.go 202-206) returns the same string at every
\* call: every room gets the id with this number.
generateRoomID == 1

\* strings.ToUpper on the characters of the texts tried.
ToUpper(ch) ==
    CASE ch = "a" -> "A"
      [] ch = "o" -> "O"
      [] OTHER -> ch

\* strings.TrimSpace
RECURSIVE TrimSpace(_)
TrimSpace(t) ==
    IF t = << >> THEN t
    ELSE IF Head(t) = " " THEN TrimSpace(Tail(t))
    ELSE IF t[Len(t)] = " " THEN TrimSpace(SubSeq(t, 1, Len(t) - 1))
    ELSE t

\* utils.NormalizeRoomCode
NormalizeRoomCode(t) == [i \in 1..Len(TrimSpace(t)) |-> ToUpper(TrimSpace(t)[i])]

\* utils.ValidateRoomCode
ValidateRoomCode(t) ==
    /\ Len(t) = roomCodeLength
    /\ \A i \in 1..Len(t) : ToUpper(t[i]) \in roomCodeChars

\* The key of a text in rm.roomByCode: the first of Codes is the text that
\* generateRoomCode returns, the last stands for every other text.
CodeKey(t) == IF t = generateRoomCode THEN 1 ELSE NumCodes

\* The texts sent with join_room: the generated code as it is, in lower case
\* between spaces, with an O for its last character, and too short.
TypedCodes ==
    { generateRoomCode,
      << " ", "a", "a", "a", "a", "a", "a", " " >>,
      << "A", "A", "A", "A", "A", "O" >>,
      << "A", "A", "A", "A", "A" >> }

\* handleCreateRoom on the registry, with what the generators return.
codeCreateRoom(u) == registryCreateRoom(u, generateRoomID, CodeKey(generateRoomCode))

\* handleJoinRoom (websocket.go 172-193) on the registry: a text that
\* ValidateRoomCode rejects is answered with INVALID_ROOM_CODE, a code that
\* leads to no room with ROOM_NOT_FOUND.
codeJoinRoom(u, t) ==
    /\ ValidateRoomCode(NormalizeRoomCode(t))
    /\ registryJoinRoom(u, CodeKey(NormalizeRoomCode(t)))

CodeNext ==
    \/ \E u \in Users : codeCreateRoom(u)
    \/ \E u \in Users, t \in TypedCodes : codeJoinRoom(u, t)
    \/ \E u \in Users : registryLeaveRoom(u)

CodeSpec == Init /\ [][CodeNext]_vars

----------------------------------------------------------------------------
(***************************************************************************)
(* Shutdown: gracefulShutdown of main.go, Hub.Shutdown and the hub loop's   *)
(* shutdownAllClients, RoomManager.Cleanup.  The connections may close on   *)
(* their own before and after the signal, and rooms are made over HTTP and  *)
(* grow inactive, as long as the server serves.                             *)
(***************************************************************************)
\* SIGINT or SIGTERM arrives: "<-stop" returns (main.go 94-97).
osSignal ==
    /\ mainPc = "serving"
    /\ mainPc' = "hub"
    /\ UNCHANGED << shutdown, cleanupStop, gameVars, registryVars, connVars, drawVars >>

\* gracefulShutdown after the signal (main.go 99-116), one call at a time:
\* hub.Shutdown() closes hub.shutdown and returns; roomManager.Cleanup() is
\* the loop of room_manager.go 135-147, which returns when rm.cleanupStop is
\* closed; srv.Shutdown(ctx) returns within the 30 seconds of ctx.
gracefulShutdown ==
    /\ CASE mainPc = "hub" ->
               /\ shutdown' = TRUE
               /\ mainPc' = "cleanup"
          [] mainPc = "cleanup" ->
               /\ cleanupStop
               /\ mainPc' = "server"
               /\ UNCHANGED shutdown
          [] mainPc = "server" ->
               /\ mainPc' = "stopped"
               /\ UNCHANGED shutdown
          [] OTHER -> FALSE
    /\ UNCHANGED << cleanupStop, gameVars, registryVars, connVars, drawVars >>

\* RoomManager.Cleanup, the case of its ticker (room_manager.go 141-143).
\* Nothing in the program closes rm.cleanupStop: StopCleanup has no caller.
roomManagerCleanup ==
    /\ mainPc = "cleanup"
    /\ cleanupInactiveRooms

\* The hub loop takes the case "<-h.shutdown" (hub.go 128-131) and enters
\* shutdownAllClients, which locks h.mutex and ranges over h.clients.
hubShutdown ==
    /\ hubTask = AtSelect
    /\ shutdown
    /\ hubTask' = [AtSelect EXCEPT !.pc = "shutdown", !.left = hClients]
    /\ UNCHANGED << conn, hClients, clientsByUserID, register, unregister, notConnVars >>

\* shutdownAllClients (hub.go 461-468): client.Disconnect() for the next
\* client of the range, up to its return or to its send on hub.unregister;
\* after the last client Run returns.
shutdownAllClients ==
    /\ hubTask.pc = "shutdown"
    /\ hubTask.conn = NoConn
    /\ IF hubTask.left = {}
       THEN /\ hubTask' = [hubTask EXCEPT !.pc = "exited"]
            /\ UNCHANGED conn
       ELSE \E c \in hubTask.left :
                /\ conn' = disconnectBegin(conn, c, "hub")
                /\ hubTask' = [hubTask EXCEPT
                                  !.left = @ \ {c},
                                  !.conn = IF WasConnected(conn[c]) THEN c ELSE NoConn]
    /\ UNCHANGED << hClients, clientsByUserID, register, unregister, notConnVars >>

ShutdownNext ==
    \/ osSignal
    \/ gracefulShutdown
    \/ roomManagerCleanup
    \/ hubShutdown
    \/ shutdownAllClients
    \/ hubDisconnectEnqueue
    \/ unregisterEvent
    \/ \E c \in Conns : readPumpExit(c)
    \/ \E c \in Conns : disconnectEnqueue(c)
    \/ \E id \in RoomIDs, code \in Codes : registryCreateRoomHTTP(id, code)
    \/ \E n \in 1..MaxRoomObjects : roomGrowsInactive(n)

ShutdownSpec == Init /\ [][ShutdownNext]_vars

\* The Go scheduler lets every goroutine that can take a step take one: the
\* main goroutine, the hub loop (whose select takes a case that stays
\* ready), the goroutines standing at a send, the ticker of Cleanup.
ShutdownLive ==
    /\ ShutdownSpec
    /\ WF_vars(gracefulShutdown)
    /\ WF_vars(roomManagerCleanup)
    /\ WF_vars(hubShutdown)
    /\ WF_vars(shutdownAllClients)
    /\ WF_vars(hubDisconnectEnqueue)
    /\ WF_vars(unregisterEvent)
    /\ \A c \in Conns : WF_vars(disconnectEnqueue(c))

----------------------------------------------------------------------------
(***************************************************************************)
(* The way of a draw message: ReadPump, hub.messageHandler, the draw        *)
(* handler, hub.roomBroadcast, the observers' send queues, WritePump.       *)
(* The draw messages are numbered as they are read; draw_start, draw_move   *)
(* and draw_end take the same way (websocket.go 281-433), so the number     *)
(* stands for the kind as well.                                             *)
(***************************************************************************)
\* A room of NumUsers players after the lobby (room.go AddPlayer).
LobbyOfAll == AddPlayer(AddPlayer(AddPlayer(NewRoom(1, NumUsers, DrawMaxRounds), 1), 2), 3)

\* The room after handleStartGame has run (config.go 339-431): StartGame
\* twice, then StartNewRound.
DrawRoom == [StartNewRound(StartGame(StartGame(LobbyOfAll)), "cat") EXCEPT !.Games = 1]

\* A round is on in a room that holds every connection, and the hub has
\* delivered the frames of the game's start.
RoundGameInit(rm) ==
    /\ clients = Users
    /\ clientRoomID = [u \in Users |-> 1]
    /\ clientsByRoom = [r \in 1..MaxRoomsCreated |-> Users]
    /\ roomBroadcast = << >>
    /\ roomsCreated = 1
    /\ roomLive = TRUE
    /\ room = rm
    /\ user = [u \in Users |-> [ResetRoundData(NewUser) EXCEPT !.IsReady = TRUE]]
    /\ elapsed = 0
    /\ hubPc = "idle"
    /\ hubLocal = [user |-> NoUser, rid |-> 0, data |-> NoData]
    /\ timers = {[Room |-> 1, Seq |-> 1, pc |-> "tick", due |-> FALSE, data |-> NoData]}
    /\ crashed = FALSE
    /\ lastSent = {}
    /\ hist = [NoHist EXCEPT !.roundSeq = 1,
                             !.firstNewRound = [round |-> DrawRoom.CurrentRound,
                                                drawer |-> DrawRoom.CurrentDrawer,
                                                first |-> DrawRoom.PlayerOrder[1]],
                             !.newRoundSeen = [u \in Users |-> DrawRoom.CurrentRound]]

DrawGameInit == RoundGameInit(DrawRoom)

\* The same round after the drawer's first stroke has been handled and
\* written to the other players' streams.
RoundEndInit ==
    /\ RoundGameInit(AddDrawCommand(DrawRoom, 1))
    /\ RegistryInit /\ ConnInit
    /\ messageHandler = << >>
    /\ wire = [c \in Conns |-> IF c = DrawRoom.CurrentDrawer THEN << >> ELSE << 1 >>]
    /\ drawn = 1
    /\ calc = NoCalc
    /\ MainInit

DrawInit ==
    DrawGameInit /\ RegistryInit /\ ConnInit /\ DrawVarsInit /\ calc = NoCalc /\ MainInit

\* The messages a connection sends in these runs: a draw message, start_game,
\* join_room with the code of the room or with a malformed code, and a
\* message of no known type.
MessageKinds == {"draw", "start_game", "join_room", "join_bad_code", "unknown"}

NoCode == ""

\* The error code the handler of a message of this kind answers user u with
\* (websocket.go 43-80, 163-183, 239-279, 281-433), NoCode if it accepts the
\* message.
RejectCode(kind, u) ==
    LET rid == clientRoomID[u]
    IN  CASE kind = "draw" ->
                 IF rid = 0 THEN "NOT_IN_ROOM"
                 ELSE IF ~GetRoom(rid) THEN "ROOM_NOT_FOUND"
                 ELSE IF room.CurrentDrawer # u THEN "NOT_DRAWER"
                 ELSE NoCode
          [] kind = "start_game" ->
                 IF rid = 0 THEN "NOT_IN_ROOM"
                 ELSE IF ~GetRoom(rid) THEN "ROOM_NOT_FOUND"
                 ELSE IF room.HostID # u THEN "NOT_HOST"
                 ELSE IF ~CanStart(room, user) THEN "CANNOT_START"
                 ELSE NoCode
          [] kind = "join_room" ->
                 IF ~roomLive THEN "ROOM_NOT_FOUND"
                 ELSE IF ~AddPlayerOk(room, u) THEN "JOIN_FAILED"
                 ELSE NoCode
          [] kind = "join_bad_code" -> "INVALID_ROOM_CODE"
          [] OTHER -> "UNKNOWN_MESSAGE_TYPE"

\* ReadPump (client.go 132-172) reads the next message of connection c and
\* hands it to the hub, or drops it when hub.messageHandler is full.
ReadPump(c, kind) ==
    /\ conn[c].reading /\ conn[c].closed = 0
    /\ drawn < MaxDraws
    /\ drawn' = drawn + 1
    /\ messageHandler' = IF Len(messageHandler) < MessageHandlerCap
                         THEN Append(messageHandler,
                                     [Client |-> c, num |-> drawn + 1, kind |-> kind])
                         ELSE messageHandler
    /\ UNCHANGED << wire, calc, gameVars, registryVars, connVars, mainVars >>

\* The hub loop takes the next message of hub.messageHandler (hub.go 116-117)
\* and runs handleDrawStart, handleDrawMove or handleDrawEnd on it
\* (websocket.go 281-433): an error frame to the sender, or the command joins
\* the room's drawing log and a draw_data frame goes to the room without the
\* sender.
handleDraw ==
    /\ hubTask = AtSelect
    /\ HubIdle
    /\ messageHandler # << >>
    /\ Head(messageHandler).kind = "draw"
    /\ LET m == Head(messageHandler)
           c == m.Client
           u == conn[c].user
           rid == clientRoomID[u]
       IN  IF RejectCode("draw", u) # NoCode
           THEN /\ ClientSendMessage(c, 0)
                /\ UNCHANGED << roomBroadcast, room >>
           ELSE /\ room' = AddDrawCommand(room, m.num)
                /\ roomBroadcast' = EnqueueAll(roomBroadcast,
                       << RoomMessage(rid, Frame("draw_data", u, NoWord, m.num, 0), u) >>)
                /\ UNCHANGED << conn, hubTask >>
    /\ messageHandler' = Tail(messageHandler)
    /\ UNCHANGED << hubVars, roomsCreated, roomLive, user, elapsed, hubPc,
                    hubLocal, timers, crashed, lastSent, hist >>
    /\ UNCHANGED << hClients, clientsByUserID, register, unregister >>
    /\ UNCHANGED << wire, drawn, calc, registryVars, mainVars >>

\* The hub loop takes the next message of hub.messageHandler, one that its
\* handler rejects with an error code: sendClientError (websocket.go 72-80).
handleRejected ==
    /\ hubTask = AtSelect
    /\ HubIdle
    /\ messageHandler # << >>
    /\ Head(messageHandler).kind # "draw"
    /\ LET m == Head(messageHandler)
       IN  /\ RejectCode(m.kind, conn[m.Client].user) # NoCode
           /\ ClientSendMessage(m.Client, 0)
    /\ messageHandler' = Tail(messageHandler)
    /\ UNCHANGED << hubVars, roomBroadcast, roomsCreated, roomLive, room, user, elapsed,
                    hubPc, hubLocal, timers, crashed, lastSent, hist >>
    /\ UNCHANGED << hClients, clientsByUserID, register, unregister >>
    /\ UNCHANGED << wire, drawn, calc, registryVars, mainVars >>

\* The connections Hub.broadcastToRoom (hub.go 373-397) sends the message to.
RoomTargets(m) ==
    {c \in Conns : /\ conn[c].user \in clientsByRoom[m.RoomID]
                   /\ conn[c].user # m.Exclude
                   /\ conn[c].isConnected}

\* Hub.broadcastToRoom (hub.go 373-397) for the next message of
\* hub.roomBroadcast, onto the send queues: a full queue drops the frame and
\* starts "go client.Disconnect()".
broadcastToRoomQueues ==
    /\ hubTask = AtSelect
    /\ HubIdle
    /\ roomBroadcast # << >>
    /\ LET m == Head(roomBroadcast)
       IN  conn' = [c \in Conns |->
               IF c \notin RoomTargets(m) THEN conn[c]
               ELSE IF Len(conn[c].send) < SendCap
               THEN [conn[c] EXCEPT !.send = Append(@, m.Message.num)]
               ELSE [conn[c] EXCEPT !.goDisconnects =
                        IF @ + conn[c].calls < MaxDisconnectCalls THEN @ + 1 ELSE @]]
    /\ roomBroadcast' = Tail(roomBroadcast)
    /\ UNCHANGED << hubVars, roomsCreated, roomLive, room, user, elapsed, hubPc,
                    hubLocal, timers, crashed, lastSent, hist >>
    /\ UNCHANGED << hClients, clientsByUserID, register, unregister, hubTask >>
    /\ UNCHANGED << drawVars, registryVars, mainVars >>

\* The end of a round in a room of three, with HandleRoundEnd interleaved
\* between the drawer's points and the building of the round_ended data.
RoundEndNext ==
    \/ \E u \in Users, g \in Guesses : handleSendGuess(u, g)
    \/ handleSendGuessAward
    \/ hubHandleRoundEndAward
    \/ hubHandleRoundEndBuild
    \/ \E word \in Words, winner \in Users \cup {NoUser} :
           RoundBudget /\ hubHandleRoundEndBroadcast(word, winner)
    \/ broadcastToRoom
    \/ ClockTick
    \/ \E t \in timers : runRoundTimer(t)
    \/ \E t \in timers : timerHandleRoundEndAward(t)
    \/ \E t \in timers : timerHandleRoundEndBuild(t)
    \/ \E t \in timers, word \in Words, winner \in Users \cup {NoUser} :
           RoundBudget /\ timerHandleRoundEndBroadcast(t, word, winner)

RoundEndSpec == RoundEndInit /\ [][RoundEndNext]_vars

DrawNext ==
    \/ \E c \in Users, kind \in MessageKinds : ReadPump(c, kind)
    \/ handleDraw
    \/ handleRejected
    \/ broadcastToRoomQueues
    \/ \E c \in Conns : WritePump(c)
    \/ \E c \in Conns : goDisconnect(c)
    \/ \E c \in Conns : disconnectEnqueue(c)
    \/ hubDisconnectEnqueue
    \/ unregisterEvent

DrawSpec == DrawInit /\ [][DrawNext]_vars

----------------------------------------------------------------------------
(***************************************************************************)
(* CalculateGuesserPoints on its own, for the arguments ValidateGuess can   *)
(* pass and others: any order and count of guessers up to the number of     *)
(* players, guess times beyond the round's duration, the three              *)
(* difficulties.                                                            *)
(***************************************************************************)
Difficulties == {"easy", "medium", "hard"}

PointsInputs ==
    {c \in [guessOrder : 1..MaxPointsPlayers, totalGuessers : 1..MaxPointsPlayers,
            guessTime : 0..MaxGuessTime, roundDuration : {RoundTime, DefaultRoundTime},
            totalPlayers : MinPlayersToStart..MaxPointsPlayers,
            difficulty : Difficulties, returned : {FALSE}, points : {0}] :
        /\ c.guessOrder <= c.totalPlayers
        /\ c.totalGuessers <= c.totalPlayers}

PointsInit ==
    /\ GameInit /\ RegistryInit /\ ConnInit /\ DrawVarsInit /\ MainInit
    /\ calc \in PointsInputs

\* The call returns (game_engine CalculateGuesserPoints).
ReturnPoints ==
    /\ ~calc.returned
    /\ calc' = [calc EXCEPT !.returned = TRUE,
                            !.points = CalculateGuesserPoints(calc.guessOrder,
                                calc.totalGuessers, calc.guessTime, calc.roundDuration,
                                calc.totalPlayers, calc.difficulty)]
    /\ UNCHANGED << messageHandler, wire, drawn, gameVars, registryVars, connVars,
                    mainVars >>

PointsNext == ReturnPoints

PointsSpec == PointsInit /\ [][PointsNext]_vars

----------------------------------------------------------------------------
(***************************************************************************)
(* getLeaderboard on its own (websocket.go 537-548), for rooms of two and   *)
(* three players with scores that tie and scores that do not.               *)
(***************************************************************************)
\* The scores tried: none, a drawer's, a guesser's.
ScoreValues == {0, DrawerBasePoints + DrawerBonusPerGuesser, 220}

\* The orders a set of users can stand in.
OrdersOf(P) ==
    {b \in [1..Cardinality(P) -> P] : \A i, j \in 1..Cardinality(P) : b[i] = b[j] => i = j}

\* The players, their scores, and the order of their joined_at (user.go 45).
LeaderboardInputs ==
    {c \in [players : {P \in SUBSET Users : Cardinality(P) >= MinPlayersToStart},
            score : [Users -> ScoreValues], joined : {<< >>},
            returned : {FALSE}, board : {<< >>}] :
        \A u \in Users \ c.players : c.score[u] = 0}

\* What getLeaderboard can return: the players are appended in the order of
\* iteration over the Players map, which Go leaves open, and sort.Slice
\* orders them by "Score >" alone; players with equal scores stay in the
\* order of the iteration.
getLeaderboard(players, score) ==
    {b \in OrdersOf(players) :
        \A i, j \in 1..Len(b) : i < j => score[b[i]] >= score[b[j]]}

LeaderboardInit ==
    /\ GameInit /\ RegistryInit /\ ConnInit /\ DrawVarsInit /\ MainInit
    /\ \E c \in LeaderboardInputs :
           \E ord \in OrdersOf(c.players) : calc = [c EXCEPT !.joined = ord]

\* The call returns.
ReturnLeaderboard ==
    /\ ~calc.returned
    /\ \E b \in getLeaderboard(calc.players, calc.score) :
           calc' = [calc EXCEPT !.returned = TRUE, !.board = b]
    /\ UNCHANGED << messageHandler, wire, drawn, gameVars, registryVars, connVars,
                    mainVars >>

LeaderboardNext == ReturnLeaderboard

LeaderboardSpec == LeaderboardInit /\ [][LeaderboardNext]_vars

----------------------------------------------------------------------------
(***************************************************************************)
(* The read-write locks of a Room and of one of its Users while a          *)
(* goroutine builds the room's public view (Room.GetPublicRoomInfo,        *)
(* room.go 358-385, with User.ToPublicUser, user.go 145-161) and others    *)
(* call methods that write (Room.AddDrawCommand, room.go 339-347;          *)
(* User.AddScore, user.go 71-75).  sync.RWMutex: a Lock call that waits    *)
(* for the readers to leave makes every later RLock call wait until that   *)
(* writer has unlocked.                                                    *)
(***************************************************************************)
Mutexes == {"room", "user"}

NewRWMutex == [readers |-> 0, pending |-> FALSE, locked |-> FALSE]

\* RLock returns at once: no writer holds the lock or waits for it.
CanRLock(mu) == ~mu.pending /\ ~mu.locked

\* Where GetPublicRoomInfo stands, the lock call it makes next and where it
\* stands after it:
\*   start        r.mutex.RLock()                      (room.go 359)
\*   players      player.ToPublicUser: u.mutex.RLock() (room.go 364, user.go 146)
\*   toPublicUser u.GetAccuracy: u.mutex.RLock()       (user.go 158, 129)
\*   getAccuracy  its deferred RUnlock                 (user.go 130)
\*   accuracy     the deferred RUnlock of ToPublicUser (user.go 147)
\*   fields       r.GetTimeLeft: r.mutex.RLock()       (room.go 381, 323)
\*   getTimeLeft  its deferred RUnlock                 (room.go 324)
\*   canJoin      r.IsFull: r.mutex.RLock(), called in the lobby only
\*                                                     (room.go 382, 201)
\*   isFull       its deferred RUnlock                 (room.go 202)
\*   return       the deferred RUnlock of GetPublicRoomInfo (room.go 360)
ViewSteps(lobby) ==
    [start        |-> [mu |-> "room", op |-> "RLock",   next |-> "players"],
     players      |-> [mu |-> "user", op |-> "RLock",   next |-> "toPublicUser"],
     toPublicUser |-> [mu |-> "user", op |-> "RLock",   next |-> "getAccuracy"],
     getAccuracy  |-> [mu |-> "user", op |-> "RUnlock", next |-> "accuracy"],
     accuracy     |-> [mu |-> "user", op |-> "RUnlock", next |-> "fields"],
     fields       |-> [mu |-> "room", op |-> "RLock",   next |-> "getTimeLeft"],
     getTimeLeft  |-> [mu |-> "room", op |-> "RUnlock",
                       next |-> IF lobby THEN "canJoin" ELSE "return"],
     canJoin      |-> [mu |-> "room", op |-> "RLock",   next |-> "isFull"],
     isFull       |-> [mu |-> "room", op |-> "RUnlock", next |-> "return"],
     return       |-> [mu |-> "room", op |-> "RUnlock", next |-> "done"]]

\* The lock call GetPublicRoomInfo makes next.
ViewStep == ViewSteps(calc.lobby)[calc.view]

LockInputs ==
    [mu : {[m \in Mutexes |-> NewRWMutex]}, view : {"start"}, lobby : BOOLEAN,
     writer : {[m \in Mutexes |-> "idle"]}, calls : {[m \in Mutexes |-> 0]}]

LockInit ==
    /\ GameInit /\ RegistryInit /\ ConnInit /\ DrawVarsInit /\ MainInit
    /\ calc \in LockInputs

NotCalc == << messageHandler, wire, drawn, gameVars, registryVars, connVars, mainVars >>

\* The goroutine that builds the view makes its next lock call, which
\* returns.
GetPublicRoomInfo ==
    /\ calc.view # "done"
    /\ LET st == ViewStep
       IN  /\ st.op = "RLock" => CanRLock(calc.mu[st.mu])
           /\ calc' = [calc EXCEPT
                  !.view = st.next,
                  !.mu[st.mu].readers = IF st.op = "RLock" THEN @ + 1 ELSE @ - 1]
    /\ UNCHANGED NotCalc

\* A goroutine calls a method that writes (m = "room": AddDrawCommand, EndRound,
\* ...; m = "user": AddScore, RecordGuess, ...): its Lock call announces the
\* writer.
writerLock(m) ==
    /\ calc.writer[m] = "idle"
    /\ calc.calls[m] < MaxLockCalls
    /\ calc' = [calc EXCEPT !.writer[m] = "pending", !.mu[m].pending = TRUE,
                            !.calls[m] = @ + 1]
    /\ UNCHANGED NotCalc

\* The Lock call returns when the readers have left.
writerAcquire(m) ==
    /\ calc.writer[m] = "pending"
    /\ calc.mu[m].readers = 0
    /\ calc' = [calc EXCEPT !.writer[m] = "locked", !.mu[m].pending = FALSE,
                            !.mu[m].locked = TRUE]
    /\ UNCHANGED NotCalc

\* The method's deferred Unlock.
writerUnlock(m) ==
    /\ calc.writer[m] = "locked"
    /\ calc' = [calc EXCEPT !.writer[m] = "idle", !.mu[m].locked = FALSE]
    /\ UNCHANGED NotCalc

LockNext ==
    \/ GetPublicRoomInfo
    \/ \E m \in Mutexes : writerLock(m)
    \/ \E m \in Mutexes : writerAcquire(m)
    \/ \E m \in Mutexes : writerUnlock(m)

LockSpec == LockInit /\ [][LockNext]_vars

----------------------------------------------------------------------------
(***************************************************************************)
(* Properties                                                              *)
(***************************************************************************)
Occurrences(s, x) == Cardinality({i \in 1..Len(s) : s[i] = x})

NoDuplicates(s) == \A i, j \in 1..Len(s) : s[i] = s[j] => i = j

\* The round is on: the word is still secret.
RoundOn == roomLive /\ room.State = "playing" /\ room.Phase = "drawing"

\* C1: while a round is on, no chat_message frame put on the send queue of a
\* connection other than the drawer's contains the room's current_word.
C1_NoSecretInChat ==
    \A m \in lastSent :
        (RoundOn /\ m.frame.type = "chat_message" /\ m.frame.user # NoUser
            /\ m.to # room.CurrentDrawer)
        => m.frame.word # room.CurrentWord

\* C2: a new_round frame that carries the word is put only on the send queue
\* of the drawer it names, who is the room's current drawer; every new_round
\* frame for another connection has no word, whether or not the drawer's
\* connection is found in the hub.
C2_WordOnlyToDrawer ==
    \A m \in lastSent :
        m.frame.type = "new_round" =>
            /\ m.frame.word # NoWord => (m.to = m.frame.user /\ m.to = room.CurrentDrawer)
            /\ m.to # m.frame.user => m.frame.word = NoWord

\* A new_round frame reaches a player who is not the drawer while the drawer's
\* connection is not in the hub.
C2_Witness ==
    \E m \in lastSent :
        /\ m.frame.type = "new_round"
        /\ m.to # m.frame.user
        /\ ~GetClientByUserID(m.frame.user)

\* C3: the first new_round after start_game announces round 1 with the drawer
\* player_order[0].
C3_FirstRound ==
    hist.firstNewRound.round # 0 =>
        /\ hist.firstNewRound.round = 1
        /\ hist.firstNewRound.drawer = hist.firstNewRound.first

\* C4: while the room is Playing, 1 <= current_round <= max_rounds; otherwise
\* current_round = 0.
C4_RoundInRange ==
    roomLive =>
        IF room.State = "playing"
        THEN 1 <= room.CurrentRound /\ room.CurrentRound <= room.MaxRounds
        ELSE room.CurrentRound = 0

\* C5: when game_ended is broadcast in a room with max_rounds = N, the
\* round_ended broadcasts of the game were exactly those of rounds 1..N.
C5_PlaysAllRounds ==
    hist.gameEnded => hist.roundEnded = [i \in 1..room.MaxRounds |-> i]

\* C6: while the room is Playing, current_drawer_id is one of its players.
C6_DrawerIsPlayer ==
    (roomLive /\ room.State = "playing") => room.CurrentDrawer \in room.Players

\* C7: guessed_players has no duplicates and does not contain the current
\* drawer, under every interleaving of the guess handler with the round timer.
C7_GuessedPlayers ==
    roomLive =>
        /\ NoDuplicates(room.GuessedPlayers)
        /\ ~Contains(room.GuessedPlayers, room.CurrentDrawer)

\* C8: a player who has submitted the correct guess two or more times in the
\* round has been given points exactly once, is once in guessed_players, and
\* has been sent exactly one guess_result and one points_awarded.
C8_CorrectGuessOnce ==
    \A u \in Users :
        (RoundOn /\ hubPc = "idle" /\ u \in clients /\ hist.correctSubmits[u] >= 2)
        => /\ hist.guessAwards[u] = 1
           /\ hist.guessResults[u] = 1
           /\ Occurrences(room.GuessedPlayers, u) = 1

\* No thread stands between adding points and announcing them.
Settled ==
    /\ hubPc = "idle"
    /\ \A t \in timers : t.pc \notin {"build", "bcast"}

\* C9: when the game has ended, every player's score is the sum of the points
\* announced for them, and in no round were the drawer's points added twice.
C9_ScoresAnnounced ==
    /\ (hist.gameEnded /\ Settled) => \A u \in Users : user[u].Score = hist.announced[u]
    /\ hist.drawerAwards <= 1

\* The room holds at most max_players players and no user twice in player_order.
C10_Membership ==
    /\ Cardinality(room.Players) <= room.MaxPlayers
    /\ NoDuplicates(room.PlayerOrder)

\* A join_room on a full room, or by a user who is in the room, is answered
\* with JOIN_FAILED and leaves players and player_order as they were.
C10_JoinRefused ==
    \A u \in Users :
        (handleJoinRoom(u) /\ roomLive
            /\ (Cardinality(room.Players) >= room.MaxPlayers \/ u \in room.Players))
        => /\ [to |-> u, frame |-> Frame("error", u, "JOIN_FAILED", 0, 0)] \in lastSent'
           /\ room'.Players = room.Players
           /\ room'.PlayerOrder = room.PlayerOrder

C11_HostIsPlayer ==
    (roomLive /\ room.Players # {}) => room.HostID \in room.Players

\* A leave_room of the host of a room that keeps a player makes the first
\* remaining entry of player_order the host.
C11_HostLeaves ==
    \A u \in Users :
        (handleLeaveRoom(u) /\ clientRoomID[u] # 0 /\ GetRoom(clientRoomID[u])
            /\ room.HostID = u /\ u \in room.Players /\ room.Players # {u})
        => room'.HostID = room'.PlayerOrder[1]

C11_HostReassigned == [][C11_HostLeaves]_vars

\* The rooms an index leads to.
FoundByID == {rooms[id] : id \in RoomIDs} \ {NoRoom}

FoundByCode == {roomByCode[c] : c \in Codes} \ {NoRoom}

\* C12: no two rooms of the registry share a code, and the by-id and by-code
\* indexes hold the same rooms: a room found by id is found under its own
\* code, and a room found by code is found under its own id.
C12_IndexesAgree ==
    /\ \A a, b \in FoundByID \cup FoundByCode :
           roomObjs[a].Code = roomObjs[b].Code => a = b
    /\ \A n \in FoundByID : roomByCode[roomObjs[n].Code] = n
    /\ \A n \in FoundByCode : rooms[roomObjs[n].ID] = n

\* A leave_room by a player of the room the sender's room id leads to.
C13_LeaveStep ==
    \A u \in Users :
        (registryLeaveRoom(u) /\ clientRoom[u] # NoRoom
            /\ rooms[clientRoom[u]] # NoRoom
            /\ u \in roomObjs[rooms[clientRoom[u]]].Players)
        => LET n == rooms[clientRoom[u]]
           IN  IF roomObjs[n].Players = {u}
               THEN /\ rooms'[roomObjs[n].ID] = NoRoom
                    /\ roomByCode'[roomObjs[n].Code] = NoRoom
               ELSE /\ rooms'[roomObjs[n].ID] = n
                    /\ roomByCode'[roomObjs[n].Code] = n

\* C13: after a leave_room that removes the last player of a room, the
\* lookups by that room's id and by that room's code return nothing; after a
\* leave_room that leaves the room a player, both return that room.
C13_LeaveLookups == [][C13_LeaveStep]_vars

\* A start_game message of a connection whose room id leads to the room.
C14_StartStep ==
    \A u \in Users, word \in Words :
        (handleStartGame(u, word) /\ u \in clients /\ clientRoomID[u] # 0
            /\ GetRoom(clientRoomID[u]))
        => IF /\ room.HostID = u
              /\ room.State = "lobby"
              /\ Cardinality(room.Players) >= 2
              /\ \A p \in room.Players : user[p].IsReady
           THEN room'.State = "playing"
           ELSE /\ [to |-> u,
                     frame |-> Frame("error", u,
                                     IF room.HostID # u THEN "NOT_HOST"
                                     ELSE "CANNOT_START", 0, 0)] \in lastSent'
                /\ room'.State = room.State
                /\ room'.Phase = room.Phase
                /\ room'.CurrentRound = room.CurrentRound
                /\ room'.CurrentDrawer = room.CurrentDrawer

C15_Reconnect ==
    \A old \in Conns :
        (conn[old].replacedBy # NoConn
            /\ ~(hubTask.pc = "register" /\ hubTask.conn = old))
        => LET new == conn[old].replacedBy
           IN  /\ ~conn[old].isConnected
               /\ conn[old].enqueued <= 1
               /\ conn[old].closed <= 1
               /\ conn[old].atSend = "none" =>
                      (conn[old].enqueued = 1 /\ conn[old].closed = 1)
               /\ (old \notin hClients /\ new \in hClients
                      /\ conn[new].replacedBy = NoConn)
                  => clientsByUserID[conn[new].user] = new

\* A connected connection was replaced, the hub loop disconnected it, its
\* unregister event has been processed and the new connection is the user's.
C15_Witness ==
    \E old \in Conns :
        /\ conn[old].replacedBy # NoConn
        /\ conn[old].reading
        /\ conn[old].calls = 1
        /\ conn[old].enqueued = 1
        /\ old \notin hClients
        /\ unregister = << >>
        /\ hubTask = AtSelect
        /\ clientsByUserID[conn[old].user] = conn[old].replacedBy

\* C16: whatever the number of Disconnect calls on a connection and whoever
\* makes them, at most one unregister event is enqueued for it and its send
\* queue is closed at most once; and when no call stands at the send on
\* hub.unregister, exactly one event was enqueued and the queue closed once.
C16_DisconnectOnce ==
    \A c \in Conns :
        /\ conn[c].enqueued <= 1
        /\ conn[c].closed <= 1
        /\ (conn[c].calls >= 1 /\ conn[c].atSend = "none")
           => (conn[c].enqueued = 1 /\ conn[c].closed = 1 /\ ~conn[c].isConnected)

\* Two or more Disconnect calls were made on a connection, one by its read
\* loop and one by the hub loop or the fan-out, and all have returned.
C16_Witness ==
    \E c \in Conns :
        /\ conn[c].calls >= 2
        /\ ~conn[c].reading
        /\ conn[c].atSend = "none"
        /\ conn[c].goDisconnects = 0
        /\ conn[c].enqueued = 1

\* C17: the hub loop never stands at a send that cannot go through: it is
\* not inside Client.disconnect, at the send on hub.unregister, while that
\* channel is full (only the hub loop takes events out of it).
C17_HubNeverStuck ==
    ~(hubTask.pc \in {"register", "message"} /\ Len(unregister) >= UnregisterCap)

\* C18: every connection is handed the frames of its room in the order the
\* coordinator emits them: game_started before any new_round of the game, and
\* the round_ended that announces the next round k+1 before the new_round of
\* round k+1.
C18_FramesInOrder ==
    \A m \in lastSent :
        /\ m.frame.type = "game_started" => hist.newRoundSeen[m.to] = 0
        /\ (m.frame.type = "round_ended" /\ m.frame.num > 0)
           => hist.newRoundSeen[m.to] < m.frame.num

\* C19: the draw_data frames written to an observer's stream are in the order
\* in which the hub dispatched the drawer's draw messages: frames may be
\* missing, none comes before an earlier one.
C19_DrawOrder ==
    \A c \in Conns : \A i, j \in 1..Len(wire[c]) :
        i < j => wire[c][i] < wire[c][j]

\* An observer has been written two draw_data frames while another observer's
\* full send queue has dropped one.
C19_Witness ==
    \E c, d \in Conns :
        /\ c # d
        /\ Len(wire[c]) >= 2
        /\ conn[d].user # room.CurrentDrawer
        /\ conn[d].calls > 0

\* floor(a / b) for b > 0.
FloorDiv(a, b) == a \div b

\* floor(m x points) with m = 1, 1.25, 1.5 for easy, medium, hard.
FloorMultiplied(points, difficulty) ==
    CASE difficulty = "medium" -> FloorDiv(points * 125, 100)
      [] difficulty = "hard"   -> FloorDiv(points * 150, 100)
      [] OTHER                 -> points

\* The points of the formula for the arguments of the call.
FormulaPoints(c) ==
    FloorMultiplied(BaseGuessPoints
        + FloorDiv(MaxOrderBonus * (c.totalPlayers - (c.guessOrder - 1)), c.totalPlayers)
        + FloorDiv(MaxDifficultyBonus * (c.totalPlayers - c.totalGuessers), c.totalPlayers)
        + FloorDiv(MaxTimeBonus * (c.roundDuration - c.guessTime), c.roundDuration),
        c.difficulty)

\* The call of the S4 scenario: 2 players, easy, order 1, 10 s of 60 s.
IsS4Call(c) ==
    /\ c.totalPlayers = 2 /\ c.difficulty = "easy" /\ c.guessOrder = 1
    /\ c.totalGuessers = 1 /\ c.guessTime = 10 /\ c.roundDuration = 60

\* C20: the points returned for a correct guess are floor(m x (P_base +
\* floor(B_order x (1 - (guess_order - 1)/total_players)) + floor(B_diff x
\* (1 - correct/total_players)) + floor(B_time x (1 - guess_seconds /
\* round_time_seconds)))), also when guess_seconds exceeds
\* round_time_seconds; for the S4 scenario they are 220.
C20_PointsFormula ==
    calc.returned =>
        /\ calc.points = FormulaPoints(calc)
        /\ IsS4Call(calc) => calc.points = 220

\* The round_ended data a thread has built and not broadcast yet.
BuiltData ==
    IF crashed THEN {}
    ELSE {t.data : t \in {x \in timers : x.pc = "bcast"}}
             \cup (IF hubPc = "bcast" THEN {hubLocal.data} ELSE {})

\* C21: the drawer_points of a round_ended are D_base + D_perGuesser x the
\* number of guessers the round_ended reports as having guessed; with none,
\* drawer_points = D_base and every player other than the drawer is once among
\* the guessers with guessed = false (and points = 0).
C21_DrawerPoints ==
    \A d \in BuiltData :
        /\ d.DrawerPoints = DrawerBasePoints + DrawerBonusPerGuesser * Len(d.Guessed)
        /\ d.Guessed = << >> =>
               /\ d.DrawerPoints = DrawerBasePoints
               /\ \A u \in room.Players \ {d.DrawerID} : Occurrences(d.NotGuessed, u) = 1

\* The hub loop is about to answer the sender of the next message with an
\* error code.
Rejecting ==
    /\ messageHandler # << >>
    /\ RejectCode(Head(messageHandler).kind, conn[Head(messageHandler).Client].user) # NoCode
    /\ (handleDraw \/ handleRejected)

\* The step leaves the other connections, the room and the hub's maps alone.
OnlySenderTouched(c) ==
    /\ \A d \in Conns \ {c} : conn'[d] = conn[d]
    /\ roomBroadcast' = roomBroadcast
    /\ room' = room /\ user' = user
    /\ UNCHANGED << hubVars, hClients, clientsByUserID >>

\* The statement as it stands: a rejected message puts an error frame on the
\* sender's send queue and on no other, changes neither room nor hub, and
\* leaves the sender connected.
C22_ErrorAlwaysQueued ==
    Rejecting =>
        LET c == Head(messageHandler).Client
        IN  /\ OnlySenderTouched(c)
            /\ conn'[c].send = Append(conn[c].send, 0)
            /\ conn'[c].isConnected

C22_Original == [][C22_ErrorAlwaysQueued]_vars

\* A rejected message touches the sender only: a connected sender whose send
\* queue has room gets the error frame and stays connected; one whose send
\* queue is full gets no frame and is disconnected; one that is no longer
\* connected gets nothing.
C22_ErrorOnlyToSender ==
    Rejecting =>
        LET c == Head(messageHandler).Client
        IN  /\ OnlySenderTouched(c)
            /\ IF conn[c].isConnected /\ Len(conn[c].send) < SendCap
               THEN conn'[c] = [conn[c] EXCEPT !.send = Append(@, 0)]
               ELSE /\ conn'[c].send = conn[c].send
                    /\ ~conn'[c].isConnected

\* C22 (amended): a message rejected at message level produces an error frame
\* for the sending connection only, emits nothing to any other connection and
\* leaves room and hub state unchanged; it does not disconnect the sender
\* unless the sender's send queue is full, in which case the frame is dropped
\* and the sender is disconnected.
C22_Rejected == [][C22_ErrorOnlyToSender]_vars

\* One connection holds an error frame and is connected while the hub loop
\* disconnects another, whose queue was full when its message was rejected.
C22_Witness ==
    \E c, d \in Conns :
        /\ c # d
        /\ conn[c].isConnected /\ Contains(conn[c].send, 0)
        /\ hubTask.pc = "message" /\ hubTask.conn = d

\* C23: a leaderboard lists all players of the room, by score descending, and
\* of two players with equal score the one with the earlier joined_at first.
C23_Leaderboard ==
    calc.returned =>
        LET b == calc.board
        IN  /\ SeqToSet(b) = calc.players /\ NoDuplicates(b)
            /\ \A i, j \in 1..Len(b) : i < j =>
                   /\ calc.score[b[i]] >= calc.score[b[j]]
                   /\ calc.score[b[i]] = calc.score[b[j]]
                      => IndexOf(calc.joined, b[i]) < IndexOf(calc.joined, b[j])

\* The game_ended frames handed to the roomBroadcast channel by this step.
GameEndedNow ==
    {roomBroadcast'[i].Message : i \in {j \in 1..Len(roomBroadcast') :
        j > Len(roomBroadcast) /\ roomBroadcast'[j].Message.type = "game_ended"}}

\* C24: every game_ended names a winner: a player of the room whose score is
\* the highest of the room, also when all scores are zero.
C24_WinnerNamed ==
    \A f \in GameEndedNow :
        /\ f.user \in room'.Players
        /\ \A q \in room'.Players : user'[q].Score <= user'[f.user].Score

\* C24, the tie: of the players with the highest score the winner is the one
\* who joined earliest (the guests were made in the order of their numbers).
C24_WinnerEarliest ==
    \A f \in GameEndedNow :
        f.user \in room'.Players =>
            \A q \in room'.Players :
                user'[q].Score = user'[f.user].Score => f.user <= q

C24_Winner == [][C24_WinnerNamed /\ C24_WinnerEarliest]_vars

\* The step in which HandleGameEnd ends the game.
EndsGame == hist'.gameEnded /\ ~hist.gameEnded

C25_EndGameStep ==
    EndsGame =>
        /\ room'.State = "lobby" /\ room'.Phase = "waiting"
        /\ room'.CurrentRound = 0
        /\ room'.CurrentDrawer = NoUser /\ room'.CurrentWord = NoWord
        /\ room'.GuessedPlayers = << >> /\ room'.DrawingData = << >>
        /\ \A p \in room'.Players : ~user'[p].IsReady
        /\ room'.Players = room.Players
        /\ room'.PlayerOrder = room.PlayerOrder
        /\ room'.HostID = room.HostID

\* C25: when the game ends the room is in the lobby and waiting, with round 0,
\* no drawer, no word, nobody in guessed_players, an empty drawing log and
\* every player not ready; players, player_order and host are as before.
C25_EndGame == [][C25_EndGameStep]_vars

\* The game of a room of three has ended; before, every player was ready and
\* the drawing log held a stroke.
C25_Witness ==
    /\ hist.gameEnded /\ ~crashed
    /\ room.State = "lobby" /\ room.Players = Users
    /\ \A p \in Users : ~user[p].IsReady
    /\ hist.roundEnded # << >>

\* At most one runRoundTimer goroutine is live per room.
C26_OneTimer ==
    \A r \in 1..MaxRoomsCreated : Cardinality({t \in timers : t.Room = r}) <= 1

\* A timer that emits a timer frame or calls HandleRoundEnd does so in the
\* round it was started for, with the game on.
C26_TimerInRound ==
    \A t \in timers :
        (t.Room = roomsCreated /\ (runRoundTimer(t) \/ timerHandleRoundEndScore(t)))
        => (roomLive /\ room.State = "playing" /\ t.Seq = hist.roundSeq)

\* C26: at most one round timer is live per room, and the timer started for
\* a round emits no timer frame and calls no end of round in a later round or
\* after the game has ended.
C26_Timers == []C26_OneTimer /\ [][C26_TimerInRound]_vars

\* C27: once the signal has arrived, gracefulShutdown shuts the hub down,
\* cleans the registry up, shuts the HTTP server down and returns.
C27_GracefulShutdown == (mainPc = "hub") ~> (mainPc = "stopped")

\* C28: once hub.shutdown is closed, every connection ends up disconnected
\* (flag cleared, stream and send queue closed) and the hub loop returns,
\* however many connections are registered.
C28_ShutdownCompletes ==
    shutdown ~> /\ hubTask.pc = "exited"
                /\ \A c \in Conns : conn[c].user # NoUser =>
                       (~conn[c].isConnected /\ conn[c].atSend = "none")

\* The text of the code of a Room object.
CodeText(n) == IF roomObjs[n].Code = CodeKey(generateRoomCode) THEN generateRoomCode
               ELSE << >>

\* C29: a room made by create_room that has players has a code of six
\* characters of roomCodeChars, which normalize and validate accept, and
\* join_room with that code finds this room.
C29_JoinByOwnCode ==
    \A n \in 1..Len(roomObjs) :
        roomObjs[n].Players # {} =>
            /\ Len(CodeText(n)) = roomCodeLength
            /\ \A i \in 1..Len(CodeText(n)) : CodeText(n)[i] \in roomCodeChars
            /\ ValidateRoomCode(NormalizeRoomCode(CodeText(n)))
            /\ GetRoomByCode(CodeKey(NormalizeRoomCode(CodeText(n)))) = n

\* The current drawer has left the room during the game.
DrawerGone ==
    /\ room.State = "playing"
    /\ room.CurrentDrawer # NoUser
    /\ room.CurrentDrawer \notin room.Players

\* C30: when the drawer leaves during the game, the coordinator does not fail
\* on the missing drawer: no HandleRoundEnd panics on it.
C30_DrawerLeaves == ~(crashed /\ DrawerGone)

\* A correct guess that leaves all players but one in guessed_players has
\* the handler call HandleRoundEnd next.
AwardEndsRound ==
    (handleSendGuessAward
        /\ Len(room'.GuessedPlayers) = Cardinality(room'.Players) - 1)
    => hubPc' = "end"

IncorrectGuess(u) ==
    /\ RoundOn /\ clientRoomID[u] = roomsCreated
    /\ ~GuessRejected(room, user, u)
    /\ \E g \in Guesses \ {room.CurrentWord} : handleSendGuess(u, g)

C32_IncorrectGuessStep ==
    \A u \in Users :
        IncorrectGuess(u) =>
            /\ room' = room
            /\ \A v \in Users : user'[v].Score = user[v].Score
            /\ ~GuessRejected(room', user', u)

\* C32: an incorrect guess of a player who may guess leaves guessed_players,
\* the scores and the phase as they are, and the player may still guess in
\* this round.
C32_IncorrectGuess == [][C32_IncorrectGuessStep]_vars



\* The round_ended data a HandleRoundEnd call holds between building it and
\* broadcasting it.
BuiltRoundEndData ==
    {hubLocal.data : x \in {y \in {1} : hubPc = "bcast"}}
        \cup {t.data : t \in {y \in timers : y.pc = "bcast"}}

\* The data of the game's first round, while no later round has begun, with
\* the players it was built for: every score started the round at 0 and a
\* guesser is not the drawer, so a guesser's score is the points added to it
\* by the correct guess.
FirstRoundData ==
    {d \in BuiltRoundEndData :
        /\ d.Seq = 1 /\ hist.roundSeq = 1
        /\ \A i \in 1..Len(d.Guessed) : d.Guessed[i] \in room.Players}

\* C33: in every round_ended frame, each entry with guessed = true carries
\* the guess_order the player was given at guess time and, as points, the
\* points that were added to the player's score for the guess, for any number
\* of correct guessers.
C33_GuesserEntries ==
    \A d \in FirstRoundData :
        \A i \in 1..Len(d.Guessed) :
            /\ d.Orders[i] = i
            /\ d.Points[i] = user[d.Guessed[i]].Score


\* The player after u in the room's player_order, wrapping.
SuccessorInOrder(rm, u) ==
    rm.PlayerOrder[(IndexOf(rm.PlayerOrder, u) % Len(rm.PlayerOrder)) + 1]

\* A step that begins a round of a game that is on already, the members and
\* their order unchanged: the drawer is the one after the previous drawer.
C34_NextDrawerStep ==
    (/\ room.State = "playing" /\ room'.State = "playing"
     /\ room'.CurrentRound > room.CurrentRound
     /\ room'.PlayerOrder = room.PlayerOrder /\ room'.Players = room.Players)
        => room'.CurrentDrawer = SuccessorInOrder(room, room.CurrentDrawer)

\* A step that starts a game: the drawer of its first round is player_order[0].
C34_FirstDrawerStep ==
    (room.State = "lobby" /\ room'.State = "playing")
        => room'.CurrentDrawer = room'.PlayerOrder[1]

\* C34: with unchanged membership the drawer of each round after the first
\* is the successor in player_order (wrapping) of the previous drawer, and the
\* rotation starts with player_order[0], so that in the first |players|
\* rounds every player draws exactly once.
C34_DrawerRotation == [][C34_NextDrawerStep /\ C34_FirstDrawerStep]_vars


\* The registered connection c is in the set of room id r.
InRoomSet(c, r) == r \in DOMAIN roomSets /\ c \in roomSets[r]

\* C35: after any sequence of create_room, join_room, leave_room and
\* unregister events a registered connection is a member of by_room[r] if and
\* only if its room_id is r, so it is in at most one set and has left no
\* entry in the set of a room it was in before; and no set is empty.
C35_RoomIndex ==
    /\ \A c \in clients, r \in RoomIDs : InRoomSet(c, r) <=> clientRoom[c] = r
    /\ \A r \in DOMAIN roomSets : roomSets[r] # {}


\* The rooms of the registry.
RegisteredRooms == {rooms[id] : id \in {i \in RoomIDs : rooms[i] # NoRoom}}

\* C36: once a connection has terminated and its unregister event has been
\* processed, its user is a player of no room of the registry, so that a
\* room whose last player's connection has terminated is in the registry no
\* longer.
C36_UserGoneWithConnection ==
    \A u \in Users \ clients : \A n \in RegisteredRooms : u \notin roomObjs[n].Players


\* The draw_data frames (their numbers) in a sequence of frames.
DrawNums(frames) == {frames[i] : i \in {j \in 1..Len(frames) : frames[j] > 0}}

\* The hub loop runs a draw handler on the message of a sender that is in
\* the room.  From the current drawer: the command is appended to the log,
\* one draw_data frame that excludes the sender joins hub.roomBroadcast (or
\* is dropped, the channel being full), and no send queue changes.  From any
\* other sender: the handler answers NOT_DRAWER, the log and hub.roomBroadcast
\* are as they were, and no send queue but the sender's changes.
C37_DrawStep ==
    handleDraw =>
        LET m == Head(messageHandler)
            c == m.Client
            u == conn[c].user
            f == RoomMessage(clientRoomID[u], Frame("draw_data", u, NoWord, m.num, 0), u)
        IN  (clientRoomID[u] # 0 /\ GetRoom(clientRoomID[u])) =>
                IF u = room.CurrentDrawer
                THEN /\ room'.DrawingData = Append(room.DrawingData, m.num)
                     /\ roomBroadcast' = IF Len(roomBroadcast) < RoomBroadcastCap
                                         THEN Append(roomBroadcast, f)
                                         ELSE roomBroadcast
                     /\ conn' = conn
                ELSE /\ RejectCode("draw", u) = "NOT_DRAWER"
                     /\ room' = room
                     /\ roomBroadcast' = roomBroadcast
                     /\ \A d \in Conns \ {c} : conn'[d] = conn[d]
                     /\ DrawNums(conn'[c].send) = DrawNums(conn[c].send)

\* The log is in the order of arrival, and no draw_data frame is in the send
\* queue of the drawer's connection or written to it.
C37_LogAndSender ==
    /\ \A i, j \in 1..Len(room.DrawingData) :
           i < j => room.DrawingData[i] < room.DrawingData[j]
    /\ \A c \in Conns :
           conn[c].user = room.CurrentDrawer =>
               DrawNums(conn[c].send) \cup DrawNums(wire[c]) = {}

InactiveRegistered(n) ==
    /\ n \in 1..Len(roomObjs)
    /\ \E id \in RoomIDs : rooms[id] = n
    /\ ~roomObjs[n].Active

\* C38: while the server is running, a room whose last activity is older
\* than the inactive-room timeout is eventually removed from the registry by
\* the cleanup loop.
C38_CleanupWhileServing ==
    \A n \in 1..MaxRoomObjects :
        (mainPc = "serving" /\ InactiveRegistered(n))
            ~> (mainPc # "serving" \/ ~InactiveRegistered(n))


\* C39: no frame is sent on a connection's send queue after the queue has
\* been closed: whatever a concurrent Disconnect does between the fan-out's
\* IsConnected check and its enqueue, the enqueue finds the queue open.
C39_EnqueueOnOpenQueue == [][hubFanOutSend => conn[hubTask.conn].closed = 0]_vars


\* GetPublicRoomInfo waits in an RLock call on lock m.
ViewWaits(m) ==
    /\ calc.view # "done"
    /\ ViewStep.op = "RLock" /\ ViewStep.mu = m
    /\ ~CanRLock(calc.mu[m])

\* C40: building a room's public view cannot deadlock with a writer that
\* requests the write lock in between: the goroutine that builds the view
\* never waits in an RLock call for a writer that itself waits for the read
\* lock this goroutine holds.
C40_ViewNoDeadlock ==
    \A m \in Mutexes :
        ~(ViewWaits(m) /\ calc.writer[m] = "pending" /\ calc.mu[m].readers > 0)

=============================================================================
